---- MODULE Spec2Model ----
(***************************************************************************)
(* Call-graph query servers.                                               *)
(*                                                                         *)
(* src/mcp_server/mcp-call-graph.py: the CSV-backed index                  *)
(* (CSVCallGraphParser), the lazy loader (_ensure_parser_loaded with its   *)
(* asyncio lock) and the five MCP tools.                                   *)
(*                                                                         *)
(*   Spec     tool calls interleave at statement granularity.  Every       *)
(*            schedule of the event loop is a behaviour of Spec.           *)
(*   FairSpec Spec, with every started call taking its steps.              *)
(*   SeqSpec  one client issues tool calls one after the other; each call  *)
(*            runs to completion, the input files are drawn from bounded   *)
(*            sets.  It is used for the query functions.                   *)
(*   NameSpec _extract_function_name, and _load_data on a one-row file,    *)
(*            applied to full names of every shape.                        *)
(*                                                                         *)
(* src/parse_python/mcp_graph_server.py: GraphMCPServer.get_call_chain.    *)
(*                                                                         *)
(*   ChainSpec     the recursion of build_chain, one frame per activation, *)
(*                 on call graphs drawn from a bounded set.                *)
(*   FairChainSpec ChainSpec, with the running call taking its steps.      *)
(*                                                                         *)
(* src/parse_python/dot_to_json.py, dot_to_llm_index.py, dot_to_kuzu_csv.py, *)
(* extract_call_graph.py, simple_call_analyzer.py: the normalizers.         *)
(*                                                                         *)
(*   LabelSpec clean_label and parse_node_label on labels of every shape.  *)
(*   DotSpec   the file loop of the three dot_to_* scripts, line by line,  *)
(*             with files that fail to open or to be read.                 *)
(*   AdjSpec   the loops that fill call_graph and called_by.               *)
(*   CpgSpec   parse_cpg_output, then build_call_graph.                    *)
(*                                                                         *)
(* Each specification holds the variables of the other parts at rest.      *)
(*                                                                         *)
(* Python strings are sequences of one-character strings, so that          *)
(* splitting, lower-casing, substring search and ordering are computed.    *)
(***************************************************************************)
EXTENDS Integers, Sequences, FiniteSets, TLC

VARIABLES
    filesExist,    \* methods.csv and calls.csv both exist in DEFAULT_OUT_DIR
    presentAtStart,\* history: the files existed when the process started
    methodsCsv,    \* rows of methods.csv, in file order
    callsCsv,      \* rows of calls.csv, in file order
    heap,          \* live CSVCallGraphParser objects, by object identity
    parser,        \* the module global _parser: 0 is None, else an identity
    locked,        \* _parser_lock._locked
    waiters,       \* _parser_lock._waiters, first in first out
    pc,            \* position of every tool call
    tool,          \* the tool and argument of every call
    building,      \* the object a call is constructing (0: none)
    got,           \* what _ensure_parser_loaded returned to the call (0: nothing yet)
    exc,           \* the exception propagating in the call
    resp,          \* the response handed back to the caller
    loadCount,     \* number of CSVCallGraphParser(...) constructions started
    graph_data,    \* GraphMCPServer.graph_data["call_graphs"], in dictionary order
    request,       \* the arguments of the get_call_chain call being served
    frames,        \* the activations of build_chain, innermost last
    reply,         \* what get_call_chain returned
    cpc,           \* position of the get_call_chain call
    applied,       \* the function applied to fnArg ("none": not yet)
    fnArg,         \* the argument of a function checked on its own
    fnRet,         \* what the function returned
    script,        \* the normalizer script that runs ("none": none)
    dotInput,      \* what the graph files gave so far: per file the lines read
                   \* and whether opening or reading failed
    npc,           \* position of the script
    nodes,         \* local `nodes` of parse_dot_file
    edgelist,      \* local `edges` of parse_dot_file
    graphs,        \* the graphs stored so far (graphs, all_call_graphs)
    node_rows,     \* dot_to_kuzu_csv.py: the global node_rows
    edge_rows      \* dot_to_kuzu_csv.py: the global edge_rows

csvVars == <<filesExist, presentAtStart, methodsCsv, callsCsv, heap, parser, locked,
             waiters, pc, tool, building, got, exc, resp, loadCount>>

chainVars == <<graph_data, request, frames, reply, cpc>>

pureVars == <<applied, fnArg, fnRet>>

normVars == <<script, dotInput, npc, nodes, edgelist, graphs, node_rows, edge_rows>>

vars == <<csvVars, chainVars, pureVars, normVars>>

\* What the steps of each part of the model leave alone.
notCsvVars == <<chainVars, pureVars, normVars>>
notChainVars == <<csvVars, pureVars, normVars>>
notPureVars == <<csvVars, chainVars, normVars>>
notNormVars == <<csvVars, chainVars, pureVars>>

-----------------------------------------------------------------------------
(* Bounds *)

NumTasks == 2
MaxMethods == 2
MaxCalls == 2
MaxSeqLoads == 2

Tasks == 1..NumTasks

-----------------------------------------------------------------------------
(* Strings *)

\* Code point of a character (Python compares str by code point).
Ord(c) ==
    CASE c = "-" -> 45 [] c = "." -> 46 [] c = "/" -> 47
      [] c = "1" -> 49 [] c = "2" -> 50 [] c = ":" -> 58
      [] c = "<" -> 60 [] c = ">" -> 62
      [] c = "C" -> 67 [] c = "F" -> 70 [] c = "G" -> 71 [] c = "U" -> 85
      [] c = "N" -> 78
      [] c = "a" -> 97 [] c = "b" -> 98 [] c = "c" -> 99 [] c = "e" -> 101
      [] c = "f" -> 102 [] c = "g" -> 103 [] c = "k" -> 107 [] c = "l" -> 108
      [] c = "m" -> 109 [] c = "n" -> 110 [] c = "o" -> 111 [] c = "u" -> 117
      [] c = "w" -> 119 [] c = "z" -> 122

\* str.lower() on one character.
LowerChar(c) ==
    CASE c = "C" -> "c" [] c = "F" -> "f" [] c = "G" -> "g" [] c = "N" -> "n"
      [] c = "U" -> "u" [] OTHER -> c

\* str.lower()
StrLower(s) == [i \in 1..Len(s) |-> LowerChar(s[i])]

\* q in s (substring test)
StrContains(q, s) ==
    \E i \in 0..(Len(s) - Len(q)) : SubSeq(s, i + 1, i + Len(q)) = q

\* c in s for a single character c
HasChar(s, c) == \E i \in 1..Len(s) : s[i] = c

\* a < b on str
RECURSIVE StrLess(_, _)
StrLess(a, b) ==
    IF a = <<>> THEN b # <<>>
    ELSE IF b = <<>> THEN FALSE
    ELSE IF Ord(Head(a)) # Ord(Head(b)) THEN Ord(Head(a)) < Ord(Head(b))
    ELSE StrLess(Tail(a), Tail(b))

\* s.split(sep)[-1]: the text after the last occurrence of sep (all of s if none)
RECURSIVE SplitLast(_, _)
SplitLast(s, sep) ==
    IF s = <<>> THEN <<>>
    ELSE IF s[Len(s)] = sep THEN <<>>
    ELSE Append(SplitLast(SubSeq(s, 1, Len(s) - 1), sep), s[Len(s)])

\* sorted(S) for a set S of str: ascending, one entry per element
RECURSIVE SortedSet(_)
SortedSet(S) ==
    IF S = {} THEN <<>>
    ELSE LET m == CHOOSE x \in S : \A y \in S \ {x} : StrLess(x, y)
         IN  <<m>> \o SortedSet(S \ {m})

\* sorted(l) for a list l of str: stable insertion, duplicates kept
RECURSIVE SortedList(_)
SortedList(l) ==
    IF l = <<>> THEN <<>>
    ELSE LET rest == SortedList(Tail(l))
             x    == Head(l)
             k    == Cardinality({i \in 1..Len(rest) : StrLess(rest[i], x)})
         IN  SubSeq(rest, 1, k) \o <<x>> \o SubSeq(rest, k + 1, Len(rest))

-----------------------------------------------------------------------------
(* Dictionaries *)

DictPut(d, k, v) == [x \in (DOMAIN d) \cup {k} |-> IF x = k THEN v ELSE d[x]]
DictGet(d, k, default) == IF k \in DOMAIN d THEN d[k] ELSE default
EmptyDict == [x \in {} |-> 0]

\* collections.defaultdict(list): keys in insertion order, one list per key
EmptyListDict == [keys |-> <<>>, lists |-> EmptyDict]
ListDictAppend(d, k, v) ==
    IF k \in DOMAIN d.lists
    THEN [d EXCEPT !.lists = [@ EXCEPT ![k] = Append(@, v)]]
    ELSE [keys |-> Append(d.keys, k), lists |-> DictPut(d.lists, k, <<v>>)]

-----------------------------------------------------------------------------
(* Input files *)

Sentinel == "-1"
UnknownFullName ==
    <<"<", "u", "n", "k", "n", "o", "w", "n", "F", "u", "l", "l", "N", "a", "m", "e", ">">>

NameAF  == <<"a", ":", "f">>
NameACF == <<"a", ":", "C", ".", "f">>
NameG   == <<"G">>
RawExt  == <<"a">>

MethodIds == {"1", "2"}
FullNames == {NameAF, NameACF, NameG}

\* One row of methods.csv as csv.DictReader yields it.
MethodRow(id, fn) ==
    [method_id |-> id, full_name |-> fn, signature |-> <<"(">> \o fn, file |-> <<"/", id>>]
MethodRows == {MethodRow(id, fn) : id \in MethodIds, fn \in FullNames}

\* One row of calls.csv; a file without the callee_full_name column gives rows
\* without that key.
CallRow(a, b, raw) == [caller_id |-> a, callee_id |-> b, callee_full_name |-> raw]
CallRows ==
    { CallRow("1", "2", RawExt), CallRow("2", "2", RawExt),
      CallRow("1", Sentinel, RawExt), CallRow("1", Sentinel, UnknownFullName),
      CallRow("1", Sentinel, <<>>), [caller_id |-> "2", callee_id |-> "1"] }

SeqsUpTo(S, n) == UNION { [1..k -> S] : k \in 0..n }

\* The files the interleaved specification loads.
SampleMethods == << MethodRow("1", NameAF), MethodRow("2", NameG) >>
SampleCalls   == << CallRow("1", "2", RawExt), CallRow("1", Sentinel, RawExt) >>

-----------------------------------------------------------------------------
(* class CSVCallGraphParser *)

\* __init__: the empty tables, before _load_data
NewParser == [methods |-> EmptyDict, methods_by_name |-> EmptyListDict, calls |-> <<>>]

\* Mutant: the text after the last ':' is the short name, member access or not.
extract_function_nameNoMember(full_name) ==
    IF HasChar(full_name, ":") THEN SplitLast(full_name, ":") ELSE full_name

extract_function_name(full_name) ==
    IF HasChar(full_name, ":")
    THEN LET last == SplitLast(full_name, ":")
         IN  IF HasChar(last, ".") THEN SplitLast(last, ".") ELSE last
    ELSE full_name

\* _load_data, the loop over methods.csv
RECURSIVE LoadMethods(_, _)
LoadMethods(p, rows) ==
    IF rows = <<>> THEN p
    ELSE LET row       == Head(rows)
             method_id == row.method_id
             func_name == extract_function_name(row.full_name)
         IN  LoadMethods(
               [p EXCEPT !.methods = DictPut(@, method_id, row),
                         !.methods_by_name = ListDictAppend(@, func_name, method_id)],
               Tail(rows))

\* _load_data, the loop over calls.csv
LoadCalls(p, rows) == [p EXCEPT !.calls = p.calls \o rows]

InList(x, l) == \E i \in 1..Len(l) : l[i] = x

\* Mutant: only the first candidate of an ambiguous name is used.
CandidatesFirstOnly(p, function_name) ==
    LET l == DictGet(p.methods_by_name.lists, function_name, <<>>)
    IN  IF l = <<>> THEN <<>> ELSE <<l[1]>>

\* methods_by_name.get(function_name, [])
Candidates(p, function_name) == DictGet(p.methods_by_name.lists, function_name, <<>>)

\* Mutant: the lookup is methods_by_name[function_name]; a defaultdict inserts
\* an empty list for a name it does not hold.
LookupInserting(p, function_name) ==
    IF function_name \in DOMAIN p.methods_by_name.lists THEN p
    ELSE [p EXCEPT !.methods_by_name =
            [keys |-> Append(@.keys, function_name),
             lists |-> DictPut(@.lists, function_name, <<>>)]]

\* The parser after methods_by_name.get(function_name, []): dict.get inserts
\* nothing, also on a defaultdict.
Lookup(p, function_name) == p

RECURSIVE CallersLoop(_, _, _, _)
CallersLoop(p, method_ids, calls, callers) ==
    IF calls = <<>> THEN callers
    ELSE LET call == Head(calls)
             add  == IF InList(call.callee_id, method_ids)
                        /\ call.caller_id \in DOMAIN p.methods
                     THEN {p.methods[call.caller_id].full_name}
                     ELSE {}
         IN  CallersLoop(p, method_ids, Tail(calls), callers \cup add)

get_callers(p, function_name) ==
    LET method_ids == Candidates(p, function_name)
    IN  IF method_ids = <<>> THEN <<>>
        ELSE SortedSet(CallersLoop(p, method_ids, p.calls, {}))

\* Mutant: the placeholder is not filtered out.
RawUsableWithPlaceholder(call) ==
    /\ "callee_full_name" \in DOMAIN call
    /\ call.callee_full_name # <<>>

\* call.get("callee_full_name") is usable: present, non-empty, not the placeholder
RawUsable(call) ==
    /\ "callee_full_name" \in DOMAIN call
    /\ call.callee_full_name # <<>>
    /\ call.callee_full_name # UnknownFullName

\* Mutant: the raw name is preferred to the resolved record.
RECURSIVE CalleesLoopRawFirst(_, _, _, _)
CalleesLoopRawFirst(p, method_ids, calls, callees) ==
    IF calls = <<>> THEN callees
    ELSE LET call == Head(calls)
             add  == IF InList(call.caller_id, method_ids)
                     THEN IF RawUsable(call) THEN {call.callee_full_name}
                          ELSE IF call.callee_id \in DOMAIN p.methods
                               THEN {p.methods[call.callee_id].full_name}
                               ELSE {}
                     ELSE {}
         IN  CalleesLoopRawFirst(p, method_ids, Tail(calls), callees \cup add)

RECURSIVE CalleesLoop(_, _, _, _)
CalleesLoop(p, method_ids, calls, callees) ==
    IF calls = <<>> THEN callees
    ELSE LET call == Head(calls)
             add  == IF InList(call.caller_id, method_ids)
                     THEN IF call.callee_id # Sentinel /\ call.callee_id \in DOMAIN p.methods
                          THEN {p.methods[call.callee_id].full_name}
                          ELSE IF RawUsable(call) THEN {call.callee_full_name} ELSE {}
                     ELSE {}
         IN  CalleesLoop(p, method_ids, Tail(calls), callees \cup add)

get_callees(p, function_name) ==
    LET method_ids == Candidates(p, function_name)
    IN  IF method_ids = <<>> THEN <<>>
        ELSE SortedSet(CalleesLoop(p, method_ids, p.calls, {}))

\* Optional[Dict]: <<>> is None, <<d>> is the dict d
get_function_details(p, function_name) ==
    LET method_ids == Candidates(p, function_name)
    IN  IF method_ids = <<>> THEN <<>>
        ELSE LET method_id == method_ids[1]
                 method    == p.methods[method_id]
             IN  << [method_id |-> method_id, full_name |-> method.full_name,
                     signature |-> method.signature, file |-> method.file] >>

\* Mutant: the matches are returned in dictionary order, unsorted.
search_functionsUnsorted(p, query) ==
    LET q    == StrLower(query)
        keys == p.methods_by_name.keys
    IN  SelectSeq(keys, LAMBDA name : StrContains(q, StrLower(name)))

search_functions(p, query) ==
    LET q    == StrLower(query)
        keys == p.methods_by_name.keys
        hits == SelectSeq(keys, LAMBDA name : StrContains(q, StrLower(name)))
    IN  SortedList(hits)

get_stats(p, exists) ==
    [total_methods |-> Cardinality(DOMAIN p.methods),
     total_calls |-> Len(p.calls),
     unique_functions |-> Len(p.methods_by_name.keys),
     methods_loaded |-> exists,
     calls_loaded |-> exists]

-----------------------------------------------------------------------------
(* The MCP tools: responses *)

ToolNames == {"get_callees", "get_callers", "get_function_details",
              "search_functions", "get_call_graph_stats"}

NoArg == <<>>
NoCount == -1

\* The JSON object a tool returns.  payload is the list of results, or the one
\* details/statistics object, or empty; count is NoCount when the key is absent;
\* error is "" when the key is absent; raised marks an exception that left the
\* tool instead of a response.
Response(name, arg, payload, count, success, error) ==
    [tool |-> name, arg |-> arg, payload |-> payload, count |-> count,
     success |-> success, error |-> error, raised |-> FALSE]

NoResponse == Response("none", NoArg, <<>>, NoCount, FALSE, "")

\* str(e)
StrOfException(e) ==
    IF e = "FileNotFoundError"
    THEN "Missing CSV files. Expected methods.csv and calls.csv"
    ELSE ""

\* Mutant: an empty list is reported as a failure.
ToolTryEmptyFails(call, p, exists) ==
    LET results ==
          CASE call.name = "get_callees" -> get_callees(p, call.arg)
            [] call.name = "get_callers" -> get_callers(p, call.arg)
            [] call.name = "search_functions" -> search_functions(p, call.arg)
            [] OTHER -> <<>>
    IN  CASE call.name \in {"get_callees", "get_callers", "search_functions"} ->
               IF results = <<>>
               THEN Response(call.name, call.arg, <<>>, NoCount, FALSE, "Function not found")
               ELSE Response(call.name, call.arg, results, Len(results), TRUE, "")
          [] call.name = "get_function_details" ->
               LET details == get_function_details(p, call.arg)
               IN  IF details # <<>>
                   THEN Response(call.name, call.arg, details, NoCount, TRUE, "")
                   ELSE Response(call.name, call.arg, <<>>, NoCount, FALSE, "Function not found")
          [] call.name = "get_call_graph_stats" ->
               Response(call.name, NoArg, <<get_stats(p, exists)>>, NoCount, TRUE, "")

\* The try branch of a tool, after _ensure_parser_loaded returned p.
ToolTry(call, p, exists) ==
    CASE call.name = "get_callees" ->
           LET results == get_callees(p, call.arg)
           IN  Response(call.name, call.arg, results, Len(results), TRUE, "")
      [] call.name = "get_callers" ->
           LET results == get_callers(p, call.arg)
           IN  Response(call.name, call.arg, results, Len(results), TRUE, "")
      [] call.name = "get_function_details" ->
           LET details == get_function_details(p, call.arg)
           IN  IF details # <<>>
               THEN Response(call.name, call.arg, details, NoCount, TRUE, "")
               ELSE Response(call.name, call.arg, <<>>, NoCount, FALSE, "Function not found")
      [] call.name = "search_functions" ->
           LET results == search_functions(p, call.arg)
           IN  Response(call.name, call.arg, results, Len(results), TRUE, "")
      [] call.name = "get_call_graph_stats" ->
           Response(call.name, NoArg, <<get_stats(p, exists)>>, NoCount, TRUE, "")

\* The parser object after the query method of the tool returned: the three
\* lookups by name go through methods_by_name.get, search_functions and
\* get_stats only read.
AfterQuery(call, p) ==
    IF call.name \in {"get_callees", "get_callers", "get_function_details"}
    THEN Lookup(p, call.arg)
    ELSE p

\* Mutant: no except branch, the exception leaves the tool.
ToolExceptMissing(call, e) ==
    [tool |-> call.name, arg |-> call.arg, payload |-> <<>>, count |-> NoCount,
     success |-> FALSE, error |-> "", raised |-> TRUE]

\* The except branch of a tool.
ToolExcept(call, e) ==
    Response(call.name, IF call.name = "get_call_graph_stats" THEN NoArg ELSE call.arg,
             <<>>, NoCount, FALSE, StrOfException(e))

-----------------------------------------------------------------------------
(* GraphMCPServer (src/parse_python/mcp_graph_server.py): get_call_chain *)

MaxDepth == 3
MaxOut == 2

\* Every call graph on two functions: a function is no key of the graph, or
\* lists up to MaxOut callees, repeats and itself included.
SmallNodes == {"A", "B"}
CalleeLists(S) ==
    {[n \in K |-> l[n]] : K \in SUBSET S, l \in [S -> SeqsUpTo(S, MaxOut)]}
SmallGraphs == {<<g>> : g \in CalleeLists(SmallNodes)}

Caller(a, l) == [n \in {a} |-> l]
Merge(f, g) == [n \in (DOMAIN f) \cup (DOMAIN g) |-> IF n \in DOMAIN f THEN f[n] ELSE g[n]]

\* A three-function cycle, a diamond, and one caller present in two graphs.
Cycle3 == << Merge(Caller("A", <<"B">>), Merge(Caller("B", <<"C">>), Caller("C", <<"A">>))) >>
Diamond ==
    << Merge(Caller("A", <<"B", "C">>), Merge(Caller("B", <<"D">>), Caller("C", <<"D">>))) >>
TwoGraphs == << Caller("A", <<"B">>), Merge(Caller("A", <<"B">>), Caller("B", <<"A">>)) >>

\* load_graph_data: the "call_graphs" of the index file; no graph at all when
\* the file is missing or unreadable.
GraphDatas == SmallGraphs \cup {Cycle3, Diamond, TwoGraphs, <<>>}

\* The function names a client asks about; "Z" is in no graph.
ChainNames == {"A", "B", "Z"}

NoRequest == [function_name |-> "", max_depth |-> 0]
NoReply == [found |-> FALSE, chain |-> <<>>]

\* The server is not serving a get_call_chain call.
ChainIdle ==
    /\ graph_data = <<>>
    /\ request = NoRequest
    /\ frames = <<>>
    /\ reply = NoReply
    /\ cpc = "idle"

\* No function is being checked on its own.
PureIdle ==
    /\ applied = "none"
    /\ fnArg = <<>>
    /\ fnRet = <<>>

\* No normalizer script runs.
NormIdle ==
    /\ script = "none"
    /\ dotInput = <<>>
    /\ npc = "idle"
    /\ nodes = <<>>
    /\ edgelist = <<>>
    /\ graphs = <<>>
    /\ node_rows = <<>>
    /\ edge_rows = <<>>

-----------------------------------------------------------------------------
(* Interleaved specification *)

NameF == <<"f">>
NameZ == <<"z">>
QueryG == <<"g">>

\* The tool calls the interleaved specification issues.
LoaderCalls ==
    { [name |-> "get_callees", arg |-> NameF],
      [name |-> "get_function_details", arg |-> NameZ],
      [name |-> "get_call_graph_stats", arg |-> NoArg] }

NoCall == [name |-> "none", arg |-> NoArg]

Init ==
    /\ filesExist \in BOOLEAN
    /\ presentAtStart = filesExist
    /\ methodsCsv = SampleMethods
    /\ callsCsv = SampleCalls
    /\ heap = EmptyDict
    /\ parser = 0
    /\ locked = FALSE
    /\ waiters = <<>>
    /\ pc = [t \in Tasks |-> "idle"]
    /\ tool = [t \in Tasks |-> NoCall]
    /\ building = [t \in Tasks |-> 0]
    /\ got = [t \in Tasks |-> 0]
    /\ exc = [t \in Tasks |-> "none"]
    /\ resp = [t \in Tasks |-> NoResponse]
    /\ loadCount = 0
    /\ ChainIdle
    /\ PureIdle
    /\ NormIdle

\* The environment writes the two CSV files.
FilesAppear ==
    /\ ~filesExist
    /\ filesExist' = TRUE
    /\ UNCHANGED <<presentAtStart, methodsCsv, callsCsv, heap, parser, locked, waiters,
                   pc, tool, building, got, exc, resp, loadCount>>
    /\ UNCHANGED notCsvVars

\* A client invokes a tool: the tool awaits _ensure_parser_loaded().
Call(t) ==
    /\ pc[t] = "idle"
    /\ \E c \in LoaderCalls : tool' = [tool EXCEPT ![t] = c]
    /\ pc' = [pc EXCEPT ![t] = "check"]
    /\ UNCHANGED <<filesExist, presentAtStart, methodsCsv, callsCsv, heap, parser,
                   locked, waiters, building, got, exc, resp, loadCount>>
    /\ UNCHANGED notCsvVars

\* Mutant: no lock and no second test: a call that finds no parser constructs
\* one right away.
CheckUnlocked(t) ==
    /\ pc[t] = "check"
    /\ IF parser # 0
       THEN /\ got' = [got EXCEPT ![t] = parser]
            /\ pc' = [pc EXCEPT ![t] = "query"]
       ELSE /\ pc' = [pc EXCEPT ![t] = "construct"]
            /\ UNCHANGED got
    /\ UNCHANGED <<filesExist, presentAtStart, methodsCsv, callsCsv, heap, parser,
                   locked, waiters, tool, building, exc, resp, loadCount>>
    /\ UNCHANGED notCsvVars

\* if _parser is not None: return _parser
Check(t) ==
    /\ pc[t] = "check"
    /\ IF parser # 0
       THEN /\ got' = [got EXCEPT ![t] = parser]
            /\ pc' = [pc EXCEPT ![t] = "query"]
       ELSE /\ pc' = [pc EXCEPT ![t] = "acquire"]
            /\ UNCHANGED got
    /\ UNCHANGED <<filesExist, presentAtStart, methodsCsv, callsCsv, heap, parser,
                   locked, waiters, tool, building, exc, resp, loadCount>>
    /\ UNCHANGED notCsvVars

\* async with _parser_lock: Lock.acquire takes a free lock nobody waits for,
\* else joins the waiters.
Acquire(t) ==
    /\ pc[t] = "acquire"
    /\ IF ~locked /\ waiters = <<>>
       THEN /\ locked' = TRUE
            /\ pc' = [pc EXCEPT ![t] = "recheck"]
            /\ UNCHANGED waiters
       ELSE /\ waiters' = Append(waiters, t)
            /\ pc' = [pc EXCEPT ![t] = "waiting"]
            /\ UNCHANGED locked
    /\ UNCHANGED <<filesExist, presentAtStart, methodsCsv, callsCsv, heap, parser,
                   tool, building, got, exc, resp, loadCount>>
    /\ UNCHANGED notCsvVars

\* Lock.release woke the first waiter: it takes the lock.
Wake(t) ==
    /\ pc[t] = "waiting"
    /\ ~locked
    /\ waiters # <<>> /\ Head(waiters) = t
    /\ locked' = TRUE
    /\ waiters' = Tail(waiters)
    /\ pc' = [pc EXCEPT ![t] = "recheck"]
    /\ UNCHANGED <<filesExist, presentAtStart, methodsCsv, callsCsv, heap, parser,
                   tool, building, got, exc, resp, loadCount>>
    /\ UNCHANGED notCsvVars

\* Mutant: the second test of _parser is missing.
RecheckOmitted(t) ==
    /\ pc[t] = "recheck"
    /\ pc' = [pc EXCEPT ![t] = "construct"]
    /\ UNCHANGED <<filesExist, presentAtStart, methodsCsv, callsCsv, heap, parser,
                   locked, waiters, tool, building, got, exc, resp, loadCount>>
    /\ UNCHANGED notCsvVars

\* if _parser is None, under the lock
Recheck(t) ==
    /\ pc[t] = "recheck"
    /\ pc' = [pc EXCEPT ![t] = IF parser = 0 THEN "construct" ELSE "return"]
    /\ UNCHANGED <<filesExist, presentAtStart, methodsCsv, callsCsv, heap, parser,
                   locked, waiters, tool, building, got, exc, resp, loadCount>>
    /\ UNCHANGED notCsvVars

\* Mutant: the new object is bound to _parser before it is loaded.
ConstructPublished(t) ==
    /\ pc[t] = "construct"
    /\ LET id == loadCount + 1
       IN  /\ heap' = DictPut(heap, id, NewParser)
           /\ building' = [building EXCEPT ![t] = id]
           /\ parser' = id
    /\ loadCount' = loadCount + 1
    /\ pc' = [pc EXCEPT ![t] = "load_data"]
    /\ UNCHANGED <<filesExist, presentAtStart, methodsCsv, callsCsv, locked,
                   waiters, tool, got, exc, resp>>
    /\ UNCHANGED notCsvVars

\* CSVCallGraphParser(out_dir): __init__ up to the call of _load_data
Construct(t) ==
    /\ pc[t] = "construct"
    /\ LET id == loadCount + 1
       IN  /\ heap' = DictPut(heap, id, NewParser)
           /\ building' = [building EXCEPT ![t] = id]
    /\ loadCount' = loadCount + 1
    /\ pc' = [pc EXCEPT ![t] = "load_data"]
    /\ UNCHANGED <<filesExist, presentAtStart, methodsCsv, callsCsv, parser, locked,
                   waiters, tool, got, exc, resp>>
    /\ UNCHANGED notCsvVars

\* _load_data: raise FileNotFoundError unless both files exist.  The exception
\* leaves __init__, so the new object is dropped.
LoadData(t) ==
    /\ pc[t] = "load_data"
    /\ IF filesExist
       THEN /\ pc' = [pc EXCEPT ![t] = "load_methods"]
            /\ UNCHANGED <<heap, building, exc>>
       ELSE /\ exc' = [exc EXCEPT ![t] = "FileNotFoundError"]
            /\ heap' = [id \in (DOMAIN heap) \ {building[t]} |-> heap[id]]
            /\ building' = [building EXCEPT ![t] = 0]
            /\ pc' = [pc EXCEPT ![t] = "release"]
    /\ UNCHANGED <<filesExist, presentAtStart, methodsCsv, callsCsv, parser, locked,
                   waiters, tool, got, resp, loadCount>>
    /\ UNCHANGED notCsvVars

\* _load_data: read methods.csv
ReadMethods(t) ==
    /\ pc[t] = "load_methods"
    /\ heap' = [heap EXCEPT ![building[t]] = LoadMethods(@, methodsCsv)]
    /\ pc' = [pc EXCEPT ![t] = "load_calls"]
    /\ UNCHANGED <<filesExist, presentAtStart, methodsCsv, callsCsv, parser, locked,
                   waiters, tool, building, got, exc, resp, loadCount>>
    /\ UNCHANGED notCsvVars

\* _load_data: read calls.csv
ReadCalls(t) ==
    /\ pc[t] = "load_calls"
    /\ heap' = [heap EXCEPT ![building[t]] = LoadCalls(@, callsCsv)]
    /\ pc' = [pc EXCEPT ![t] = "assign"]
    /\ UNCHANGED <<filesExist, presentAtStart, methodsCsv, callsCsv, parser, locked,
                   waiters, tool, building, got, exc, resp, loadCount>>
    /\ UNCHANGED notCsvVars

\* _parser = <the constructed object>
Assign(t) ==
    /\ pc[t] = "assign"
    /\ parser' = building[t]
    /\ building' = [building EXCEPT ![t] = 0]
    /\ pc' = [pc EXCEPT ![t] = "return"]
    /\ UNCHANGED <<filesExist, presentAtStart, methodsCsv, callsCsv, heap, locked,
                   waiters, tool, got, exc, resp, loadCount>>
    /\ UNCHANGED notCsvVars

\* return _parser, inside the with block
Return(t) ==
    /\ pc[t] = "return"
    /\ got' = [got EXCEPT ![t] = parser]
    /\ pc' = [pc EXCEPT ![t] = "release"]
    /\ UNCHANGED <<filesExist, presentAtStart, methodsCsv, callsCsv, heap, parser,
                   locked, waiters, tool, building, exc, resp, loadCount>>
    /\ UNCHANGED notCsvVars

\* Mutant: the lock is released on return only, not when an exception leaves
\* the block.
ReleaseOnReturnOnly(t) ==
    /\ pc[t] = "release"
    /\ locked' = (exc[t] # "none")
    /\ pc' = [pc EXCEPT ![t] = IF exc[t] = "none" THEN "query" ELSE "except"]
    /\ UNCHANGED <<filesExist, presentAtStart, methodsCsv, callsCsv, heap, parser,
                   waiters, tool, building, got, exc, resp, loadCount>>
    /\ UNCHANGED notCsvVars

\* Leaving the with block, by return or by exception: Lock.release
Release(t) ==
    /\ pc[t] = "release"
    /\ locked' = FALSE
    /\ pc' = [pc EXCEPT ![t] = IF exc[t] = "none" THEN "query" ELSE "except"]
    /\ UNCHANGED <<filesExist, presentAtStart, methodsCsv, callsCsv, heap, parser,
                   waiters, tool, building, got, exc, resp, loadCount>>
    /\ UNCHANGED notCsvVars

\* The rest of the try branch: query the parser, build the response.
Query(t) ==
    /\ pc[t] = "query"
    /\ resp' = [resp EXCEPT ![t] = ToolTry(tool[t], heap[got[t]], filesExist)]
    /\ heap' = [heap EXCEPT ![got[t]] = AfterQuery(tool[t], @)]
    /\ pc' = [pc EXCEPT ![t] = "done"]
    /\ UNCHANGED <<filesExist, presentAtStart, methodsCsv, callsCsv, parser,
                   locked, waiters, tool, building, got, exc, loadCount>>
    /\ UNCHANGED notCsvVars

\* except Exception as e: the structured failure
Except(t) ==
    /\ pc[t] = "except"
    /\ resp' = [resp EXCEPT ![t] = ToolExcept(tool[t], exc[t])]
    /\ pc' = [pc EXCEPT ![t] = "done"]
    /\ UNCHANGED <<filesExist, presentAtStart, methodsCsv, callsCsv, heap, parser,
                   locked, waiters, tool, building, got, exc, loadCount>>
    /\ UNCHANGED notCsvVars

Step(t) ==
    \/ Check(t) \/ Acquire(t) \/ Wake(t) \/ Recheck(t) \/ Construct(t)
    \/ LoadData(t) \/ ReadMethods(t) \/ ReadCalls(t) \/ Assign(t) \/ Return(t)
    \/ Release(t) \/ Query(t) \/ Except(t)

Next ==
    \/ FilesAppear
    \/ \E t \in Tasks : Call(t)
    \/ \E t \in Tasks : Step(t)

Spec == Init /\ [][Next]_vars

\* The event loop runs every ready task: each started call keeps taking steps.
FairSpec == Spec /\ \A t \in Tasks : WF_vars(Step(t))

-----------------------------------------------------------------------------
(* Sequential specification: one client, one tool call at a time.  A tool    *)
(* call never suspends when nobody holds the lock, so it runs to completion. *)

Client == 1

ShortNames == {NameF, NameG, NameZ}
Queries == {<<>>, QueryG, <<"F">>}

SeqCalls ==
    { [name |-> n, arg |-> a] :
        n \in {"get_callees", "get_callers", "get_function_details"}, a \in ShortNames }
    \cup { [name |-> "search_functions", arg |-> q] : q \in Queries }
    \cup { [name |-> "get_call_graph_stats", arg |-> NoArg] }

SeqInit ==
    /\ filesExist \in BOOLEAN
    /\ presentAtStart = filesExist
    /\ IF filesExist
       THEN /\ methodsCsv \in SeqsUpTo(MethodRows, MaxMethods)
            /\ callsCsv \in SeqsUpTo(CallRows, MaxCalls)
       ELSE /\ methodsCsv = SampleMethods
            /\ callsCsv = SampleCalls
    /\ heap = EmptyDict
    /\ parser = 0
    /\ locked = FALSE
    /\ waiters = <<>>
    /\ pc = [t \in Tasks |-> "idle"]
    /\ tool = [t \in Tasks |-> NoCall]
    /\ building = [t \in Tasks |-> 0]
    /\ got = [t \in Tasks |-> 0]
    /\ exc = [t \in Tasks |-> "none"]
    /\ resp = [t \in Tasks |-> NoResponse]
    /\ loadCount = 0
    /\ ChainIdle
    /\ PureIdle
    /\ NormIdle

\* CSVCallGraphParser(out_dir) run to completion on existing files
BuildParser(mrows, crows) == LoadCalls(LoadMethods(NewParser, mrows), crows)

\* One whole tool call: _ensure_parser_loaded, then the query or the except
\* branch.
SeqCall(c) ==
    /\ pc[Client] = "idle"
    /\ tool' = [tool EXCEPT ![Client] = c]
    /\ pc' = [pc EXCEPT ![Client] = "done"]
    /\ IF parser # 0
       THEN /\ got' = [got EXCEPT ![Client] = parser]
            /\ exc' = [exc EXCEPT ![Client] = "none"]
            /\ resp' = [resp EXCEPT ![Client] = ToolTry(c, heap[parser], filesExist)]
            /\ heap' = [heap EXCEPT ![parser] = AfterQuery(c, @)]
            /\ UNCHANGED <<parser, loadCount>>
       ELSE /\ loadCount < MaxSeqLoads
            /\ loadCount' = loadCount + 1
            /\ IF filesExist
               THEN LET id == loadCount + 1
                        p  == BuildParser(methodsCsv, callsCsv)
                    IN  /\ heap' = DictPut(heap, id, AfterQuery(c, p))
                        /\ parser' = id
                        /\ got' = [got EXCEPT ![Client] = id]
                        /\ exc' = [exc EXCEPT ![Client] = "none"]
                        /\ resp' = [resp EXCEPT ![Client] = ToolTry(c, p, filesExist)]
               ELSE /\ exc' = [exc EXCEPT ![Client] = "FileNotFoundError"]
                    /\ resp' = [resp EXCEPT ![Client] = ToolExcept(c, "FileNotFoundError")]
                    /\ UNCHANGED <<heap, parser, got>>
    /\ UNCHANGED <<filesExist, presentAtStart, methodsCsv, callsCsv, locked, waiters,
                   building>>
    /\ UNCHANGED notCsvVars

\* The client has read the response and is ready for its next call.
SeqCollect ==
    /\ pc[Client] = "done"
    /\ pc' = [pc EXCEPT ![Client] = "idle"]
    /\ tool' = [tool EXCEPT ![Client] = NoCall]
    /\ got' = [got EXCEPT ![Client] = 0]
    /\ exc' = [exc EXCEPT ![Client] = "none"]
    /\ resp' = [resp EXCEPT ![Client] = NoResponse]
    /\ UNCHANGED <<filesExist, presentAtStart, methodsCsv, callsCsv, heap, parser,
                   locked, waiters, building, loadCount>>
    /\ UNCHANGED notCsvVars

SeqNext ==
    \/ FilesAppear
    \/ \E c \in SeqCalls : SeqCall(c)
    \/ SeqCollect

SeqSpec == SeqInit /\ [][SeqNext]_vars

-----------------------------------------------------------------------------
(* get_call_chain: the recursion of build_chain, one activation per frame *)

\* build_chain(start_func, depth, visited) on entry
Frame(start_func, depth, visited) ==
    [start_func |-> start_func, depth |-> depth, visited |-> visited,
     chain |-> <<>>, at |-> "entry", g |-> 1, i |-> 1]

\* Mutant: the recursive call passes neither the depth nor the visited set.
ChildFrameDefaults(callee, depth, visited) == Frame(callee, 0, {})

\* build_chain(callee, depth + 1, visited.copy())
ChildFrame(callee, depth, visited) == Frame(callee, depth + 1, visited)

\* Mutant: only a visited function stops the expansion.
StopsVisitedOnly(f) == f.start_func \in f.visited

\* if depth >= max_depth or start_func in visited
Stops(f) == f.depth >= request.max_depth \/ f.start_func \in f.visited

\* The chain is what the tool reports; an empty chain is "No call chain found".
Render(chain) == [found |-> chain # <<>>, chain |-> chain]

\* The interpreter's stack: no activation is deeper than this.
MaxFrames == MaxDepth + 2

Top == frames[Len(frames)]
InLoop == cpc = "running" /\ Top.at = "loop"
InGraph == InLoop /\ Top.g <= Len(graph_data)
AtCallee ==
    /\ InGraph
    /\ Top.start_func \in DOMAIN graph_data[Top.g]
    /\ Top.i <= Len(graph_data[Top.g][Top.start_func])
Callee == graph_data[Top.g][Top.start_func][Top.i]

\* Mutant: the caller puts what the callee returned in front of its chain.
ReturnChainPrepending(sub) ==
    IF Len(frames) = 1
    THEN /\ frames' = <<>>
         /\ reply' = Render(sub)
         /\ cpc' = "done"
    ELSE LET caller == frames[Len(frames) - 1]
         IN  /\ frames' = SubSeq(frames, 1, Len(frames) - 2) \o
                            << [caller EXCEPT !.chain = sub \o @, !.i = @ + 1] >>
             /\ UNCHANGED <<reply, cpc>>

\* The innermost activation returns sub: its caller extends its chain and goes
\* on with the next callee; the outermost return is rendered as the reply.
ReturnChain(sub) ==
    IF Len(frames) = 1
    THEN /\ frames' = <<>>
         /\ reply' = Render(sub)
         /\ cpc' = "done"
    ELSE LET caller == frames[Len(frames) - 1]
         IN  /\ frames' = SubSeq(frames, 1, Len(frames) - 2) \o
                            << [caller EXCEPT !.chain = @ \o sub, !.i = @ + 1] >>
             /\ UNCHANGED <<reply, cpc>>

\* The CSV server has no input files and serves no call.
CsvIdle ==
    /\ filesExist = FALSE
    /\ presentAtStart = FALSE
    /\ methodsCsv = <<>>
    /\ callsCsv = <<>>
    /\ heap = EmptyDict
    /\ parser = 0
    /\ locked = FALSE
    /\ waiters = <<>>
    /\ pc = [t \in Tasks |-> "idle"]
    /\ tool = [t \in Tasks |-> NoCall]
    /\ building = [t \in Tasks |-> 0]
    /\ got = [t \in Tasks |-> 0]
    /\ exc = [t \in Tasks |-> "none"]
    /\ resp = [t \in Tasks |-> NoResponse]
    /\ loadCount = 0

ChainInit ==
    /\ CsvIdle
    /\ PureIdle
    /\ NormIdle
    /\ graph_data \in GraphDatas
    /\ request = NoRequest
    /\ frames = <<>>
    /\ reply = NoReply
    /\ cpc = "idle"

\* call_tool: get_call_chain(function_name, max_depth) calls
\* build_chain(function_name)
GetCallChain ==
    /\ cpc = "idle"
    /\ \E fn \in ChainNames, md \in 0..MaxDepth :
         /\ request' = [function_name |-> fn, max_depth |-> md]
         /\ frames' = << Frame(fn, 0, {}) >>
    /\ cpc' = "running"
    /\ UNCHANGED <<graph_data, reply>>
    /\ UNCHANGED notChainVars

\* The entry of build_chain: return [] at the depth limit or on a visited
\* function, else mark the function visited and start the chain with it.
Enter ==
    /\ cpc = "running" /\ Top.at = "entry"
    /\ IF Stops(Top)
       THEN ReturnChain(<<>>)
       ELSE /\ frames' = [frames EXCEPT ![Len(frames)] =
                            [@ EXCEPT !.visited = @ \cup {Top.start_func},
                                      !.chain = <<Top.start_func>>,
                                      !.at = "loop"]]
            /\ UNCHANGED <<reply, cpc>>
    /\ UNCHANGED <<graph_data, request>>
    /\ UNCHANGED notChainVars

\* for graph_name, call_graph in ...items(): the function is no key of this
\* graph, or its callees are exhausted
NextGraph ==
    /\ InGraph /\ ~AtCallee
    /\ frames' = [frames EXCEPT ![Len(frames)] = [@ EXCEPT !.g = @ + 1, !.i = 1]]
    /\ UNCHANGED <<graph_data, request, reply, cpc>>
    /\ UNCHANGED notChainVars

\* if callee not in visited: build_chain(callee, depth + 1, visited.copy())
Descend ==
    /\ AtCallee /\ Callee \notin Top.visited
    /\ Len(frames) < MaxFrames
    /\ frames' = Append(frames, ChildFrame(Callee, Top.depth, Top.visited))
    /\ UNCHANGED <<graph_data, request, reply, cpc>>
    /\ UNCHANGED notChainVars

\* The callee is in visited: on to the next callee.
SkipVisited ==
    /\ AtCallee /\ Callee \in Top.visited
    /\ frames' = [frames EXCEPT ![Len(frames)] = [@ EXCEPT !.i = @ + 1]]
    /\ UNCHANGED <<graph_data, request, reply, cpc>>
    /\ UNCHANGED notChainVars

\* return chain, after the last graph
Finish ==
    /\ InLoop /\ ~InGraph
    /\ ReturnChain(Top.chain)
    /\ UNCHANGED <<graph_data, request>>
    /\ UNCHANGED notChainVars

\* The client has read the reply and may ask again.
ChainCollect ==
    /\ cpc = "done"
    /\ cpc' = "idle"
    /\ request' = NoRequest
    /\ reply' = NoReply
    /\ UNCHANGED <<graph_data, frames>>
    /\ UNCHANGED notChainVars

ChainStep == Enter \/ NextGraph \/ Descend \/ SkipVisited \/ Finish

ChainNext == GetCallChain \/ ChainStep \/ ChainCollect

ChainSpec == ChainInit /\ [][ChainNext]_vars

\* The interpreter keeps running the call it has started.
FairChainSpec == ChainSpec /\ WF_vars(ChainStep)

-----------------------------------------------------------------------------
(* _extract_function_name and the index keys, on full names of every shape *)

MaxNameLen == 4

\* A path character, a letter, and the two separators
NameChars == {"/", "a", ":", "."}

PathFileClassMethod ==
    <<"p", "a", "t", "h", "/", "f", "i", "l", "e", ".", "p", "y", ":",
      "C", "l", "a", "s", "s", ".", "m", "e", "t", "h", "o", "d">>
PathFileFunc ==
    <<"p", "a", "t", "h", "/", "f", "i", "l", "e", ".", "p", "y", ":", "f", "u", "n", "c">>

\* The full names a methods.csv row may carry
NameInputs == SeqsUpTo(NameChars, MaxNameLen) \cup {PathFileClassMethod, PathFileFunc}

NameInit ==
    /\ CsvIdle
    /\ ChainIdle
    /\ NormIdle
    /\ applied = "none"
    /\ fnArg \in NameInputs
    /\ fnRet = <<>>

\* self._extract_function_name(full_name)
ExtractName ==
    /\ applied = "none"
    /\ applied' = "_extract_function_name"
    /\ fnRet' = extract_function_name(fnArg)
    /\ UNCHANGED fnArg
    /\ UNCHANGED notPureVars

\* _load_data on a methods.csv whose one row has the full name: the keys of
\* methods_by_name
LoadName ==
    /\ applied = "none"
    /\ applied' = "_load_data"
    /\ fnRet' = LoadMethods(NewParser, <<MethodRow("1", fnArg)>>).methods_by_name.keys
    /\ UNCHANGED fnArg
    /\ UNCHANGED notPureVars

NameNext == ExtractName \/ LoadName

NameSpec == NameInit /\ [][NameNext]_vars

-----------------------------------------------------------------------------
(* Node labels of the graph files (src/parse_python/dot_to_json.py,          *)
(* dot_to_llm_index.py): clean_label and parse_node_label                    *)

MaxLabelTokens == 3

BR   == <<"<", "B", "R", "/", ">">>
LT   == <<"&", "l", "t", ";">>
GT   == <<"&", "g", "t", ";">>
QUOT == <<"&", "q", "u", "o", "t", ";">>

StartsWith(s, p) == Len(p) <= Len(s) /\ SubSeq(s, 1, Len(p)) = p
Drop(s, n) == SubSeq(s, n + 1, Len(s))

\* re.sub(pat, rep, s): every non-overlapping occurrence, leftmost first
RECURSIVE ReSub(_, _, _)
ReSub(pat, rep, s) ==
    IF s = <<>> THEN <<>>
    ELSE IF StartsWith(s, pat) THEN rep \o ReSub(pat, rep, Drop(s, Len(pat)))
    ELSE <<Head(s)>> \o ReSub(pat, rep, Tail(s))

\* Mutant: the entities are decoded before the break marker is replaced.
clean_labelEntitiesFirst(label) ==
    ReSub(BR, <<" ">>, ReSub(QUOT, <<"\"">>, ReSub(GT, <<">">>, ReSub(LT, <<"<">>, label))))

clean_label(label) ==
    ReSub(QUOT, <<"\"">>, ReSub(GT, <<">">>, ReSub(LT, <<"<">>, ReSub(BR, <<" ">>, label))))

\* Character classes of the patterns, [..] and [^..]
Only(chars) == [negated |-> FALSE, chars |-> chars]
AllBut(chars) == [negated |-> TRUE, chars |-> chars]
InClass(class, c) == (c \in class.chars) # class.negated

\* \d, \s, [A-Z_]
Digits == Only({"0", "1", "2", "3", "4", "5", "6", "7", "8", "9"})
Spaces == Only({" ", "\t", "\n"})
TagChars ==
    Only({"A", "B", "C", "D", "E", "F", "G", "H", "I", "J", "K", "L", "M", "N", "O",
          "P", "Q", "R", "S", "T", "U", "V", "W", "X", "Y", "Z", "_"})
IsDigit(c) == InClass(Digits, c)
IsSpace(c) == InClass(Spaces, c)
DigitValue(c) ==
    CASE c = "0" -> 0 [] c = "1" -> 1 [] c = "2" -> 2 [] c = "3" -> 3 [] c = "4" -> 4
      [] c = "5" -> 5 [] c = "6" -> 6 [] c = "7" -> 7 [] c = "8" -> 8 [] c = "9" -> 9

\* int(s) for a string of digits
RECURSIVE IntOf(_)
IntOf(s) ==
    IF s = <<>> THEN 0
    ELSE 10 * IntOf(SubSeq(s, 1, Len(s) - 1)) + DigitValue(s[Len(s)])

\* The length of the longest prefix of s whose characters are in the class:
\* what a greedy [..]* takes when the pattern goes on with a character outside it
RunLength(s, class) ==
    LET stops == {i \in 1..Len(s) : ~InClass(class, s[i])}
    IN  IF stops = {} THEN Len(s) ELSE (CHOOSE i \in stops : \A j \in stops : i <= j) - 1

NotAmp == AllBut({"&"})
NotComma == AllBut({","})
NotNewline == AllBut({"\n"})

\* (.*): the rest of the line
RestOfLine(s) == SubSeq(s, 1, RunLength(s, NotNewline))

\* re.search(r'<BR/>(.*)', label): <<>> for no match, else <<group 1>>
RECURSIVE SearchBreak(_)
SearchBreak(s) ==
    IF s = <<>> THEN <<>>
    ELSE IF StartsWith(s, BR) THEN << RestOfLine(Drop(s, Len(BR))) >>
    ELSE SearchBreak(Tail(s))

\* re.match(r'&lt;([^&]+)&gt;\.([^,]+),\s*(\d+)', label): <<>> for no match,
\* else the three groups
OpMatch(label) ==
    IF ~StartsWith(label, LT) THEN <<>>
    ELSE LET r1 == Drop(label, Len(LT))
             g1 == SubSeq(r1, 1, RunLength(r1, NotAmp))
             r2 == Drop(r1, Len(g1))
         IN  IF g1 = <<>> \/ ~StartsWith(r2, GT \o <<".">>) THEN <<>>
             ELSE LET r3 == Drop(r2, Len(GT) + 1)
                      g2 == SubSeq(r3, 1, RunLength(r3, NotComma))
                      r4 == Drop(r3, Len(g2))
                  IN  IF g2 = <<>> \/ r4 = <<>> THEN <<>>
                      ELSE LET r5 == Drop(r4, 1)
                               r6 == Drop(r5, RunLength(r5, Spaces))
                               g3 == SubSeq(r6, 1, RunLength(r6, Digits))
                           IN  IF g3 = <<>> THEN <<>> ELSE <<g1, g2, g3>>

\* re.match(r'([A-Z_]+),\s*(\d+)<BR/>(.*)', label)
SpecialMatch(label) ==
    LET g1 == SubSeq(label, 1, RunLength(label, TagChars))
        r1 == Drop(label, Len(g1))
    IN  IF g1 = <<>> \/ r1 = <<>> \/ Head(r1) # "," THEN <<>>
        ELSE LET r2 == Drop(r1, 1)
                 r3 == Drop(r2, RunLength(r2, Spaces))
                 g2 == SubSeq(r3, 1, RunLength(r3, Digits))
                 r4 == Drop(r3, Len(g2))
             IN  IF g2 = <<>> \/ ~StartsWith(r4, BR) THEN <<>>
                 ELSE <<g1, g2, RestOfLine(Drop(r4, Len(BR)))>>

NodeInfo(op, line, snippet) == [operation_type |-> op, line |-> line, snippet |-> snippet]

Unknown == <<"u", "n", "k", "n", "o", "w", "n">>

\* Mutant: the fallback keeps the raw label, entities and break markers
\* included.
parse_node_labelRawFallback(label) ==
    LET op == OpMatch(label)
        sp == SpecialMatch(label)
    IN  IF op # <<>>
        THEN LET sm == SearchBreak(label)
             IN  NodeInfo(op[1] \o <<".">> \o op[2], IntOf(op[3]),
                          IF sm # <<>> THEN clean_label(sm[1]) ELSE <<>>)
        ELSE IF sp # <<>>
        THEN NodeInfo(sp[1], IntOf(sp[2]), clean_label(sp[3]))
        ELSE NodeInfo(Unknown, 0, label)

parse_node_label(label) ==
    LET op == OpMatch(label)
        sp == SpecialMatch(label)
    IN  IF op # <<>>
        THEN LET sm == SearchBreak(label)
             IN  NodeInfo(op[1] \o <<".">> \o op[2], IntOf(op[3]),
                          IF sm # <<>> THEN clean_label(sm[1]) ELSE <<>>)
        ELSE IF sp # <<>>
        THEN NodeInfo(sp[1], IntOf(sp[2]), clean_label(sp[3]))
        ELSE NodeInfo(Unknown, 0, clean_label(label))

\* The pieces labels are made of: the entities and the break marker, whole and
\* in fragments, separators, a digit, white space, letters
LabelTokens ==
    {LT, GT, BR, QUOT, <<"B", "R", "/">>, <<"&">>, <<".">>, <<",">>, <<"7">>,
     <<" ">>, <<"\n">>, <<"a">>, <<"M">>}

\* How the two structured forms begin
OpHead  == LT \o <<"o", "p">> \o GT \o <<".", "a", "s">> \o <<",">>
TagHead == <<"M", "_", "R", ",">>
LabelHeads == {<<>>, OpHead, TagHead}

\* The example of the source: <operator>.assignment, 5, __version__ = "0.1.0"
ExampleLabel ==
    LT \o <<"o", "p", "e", "r", "a", "t", "o", "r">> \o GT
       \o <<".", "a", "s", "s", "i", "g", "n", "m", "e", "n", "t", ",", " ", "5">> \o BR
       \o <<"_", "_", "v", "e", "r", "s", "i", "o", "n", "_", "_", " ", "=", " ">>
       \o QUOT \o <<"0", ".", "1", ".", "0">> \o QUOT

RECURSIVE Flatten(_)
Flatten(ss) == IF ss = <<>> THEN <<>> ELSE Head(ss) \o Flatten(Tail(ss))

LabelInputs ==
    {h \o Flatten(ts) : h \in LabelHeads, ts \in SeqsUpTo(LabelTokens, MaxLabelTokens)}
      \cup {ExampleLabel}

LabelInit ==
    /\ CsvIdle
    /\ ChainIdle
    /\ NormIdle
    /\ applied = "none"
    /\ fnArg \in LabelInputs
    /\ fnRet = <<>>

\* clean_label(label)
CleanLabel ==
    /\ applied = "none"
    /\ applied' = "clean_label"
    /\ fnRet' = clean_label(fnArg)
    /\ UNCHANGED fnArg
    /\ UNCHANGED notPureVars

\* parse_node_label(label)
ParseNodeLabel ==
    /\ applied = "none"
    /\ applied' = "parse_node_label"
    /\ fnRet' = parse_node_label(fnArg)
    /\ UNCHANGED fnArg
    /\ UNCHANGED notPureVars

LabelNext == CleanLabel \/ ParseNodeLabel

LabelSpec == LabelInit /\ [][LabelNext]_vars

-----------------------------------------------------------------------------
(* The normalizer scripts: dot_to_json.py, dot_to_llm_index.py and           *)
(* dot_to_kuzu_csv.py read the graph files of the output directory line by   *)
(* line.  The file contents are the environment's: every line read is drawn  *)
(* from DotLines, and opening a file or reading on may fail.                 *)

MaxLines == 2

Quote == <<"\"">>
NotQuote == AllBut({"\""})
SkipSpace(s) == Drop(s, RunLength(s, Spaces))

\* re.match(r'\s*"([^"]+)"\s*\[label\s*=\s*<(.*?)>\s*\]', line): <<>> for no
\* match, else <<node_id, label>>; the label ends at the first ">" that white
\* space and "]" follow
NodeMatch(line) ==
    LET r0 == SkipSpace(line)
    IN  IF ~StartsWith(r0, Quote) THEN <<>>
        ELSE LET r1 == Drop(r0, 1)
                 id == SubSeq(r1, 1, RunLength(r1, NotQuote))
                 r2 == Drop(r1, Len(id))
             IN  IF id = <<>> \/ ~StartsWith(r2, Quote) THEN <<>>
                 ELSE LET r3 == SkipSpace(Drop(r2, 1))
                          r4 == SkipSpace(Drop(r3, 6))
                          r5 == SkipSpace(Drop(r4, 1))
                          r6 == Drop(r5, 1)
                          ends == {p \in 0..(Len(r6) - 1) :
                                     /\ \A q \in 1..p : InClass(NotNewline, r6[q])
                                     /\ r6[p + 1] = ">"
                                     /\ StartsWith(SkipSpace(Drop(r6, p + 1)), <<"]">>)}
                      IN  IF \/ ~StartsWith(r3, <<"[", "l", "a", "b", "e", "l">>)
                             \/ ~StartsWith(r4, <<"=">>)
                             \/ ~StartsWith(r5, <<"<">>)
                             \/ ends = {}
                          THEN <<>>
                          ELSE << id, SubSeq(r6, 1, CHOOSE p \in ends : \A q \in ends : p <= q) >>

\* re.match(r'\s*"([^"]+)" -> "([^"]+)"', line): <<>> or <<src, tgt>>
EdgeMatch(line) ==
    LET r0 == SkipSpace(line)
    IN  IF ~StartsWith(r0, Quote) THEN <<>>
        ELSE LET r1 == Drop(r0, 1)
                 src == SubSeq(r1, 1, RunLength(r1, NotQuote))
                 r2 == Drop(r1, Len(src))
             IN  IF src = <<>> \/ ~StartsWith(r2, Quote \o <<" ", "-", ">", " ">> \o Quote) THEN <<>>
                 ELSE LET r3 == Drop(r2, 6)
                          tgt == SubSeq(r3, 1, RunLength(r3, NotQuote))
                      IN  IF tgt = <<>> \/ ~StartsWith(Drop(r3, Len(tgt)), Quote) THEN <<>>
                          ELSE << src, tgt >>

\* The lines of the graph files: two declarations of node "1", an edge, the
\* graph header, and a node declaration with an edge written after it
\* "1" [label = <M, 7<BR/>a>]
NodeLineA ==
    <<"\"", "1", "\"", " ", "[", "l", "a", "b", "e", "l", " ", "=", " ", "<",
      "M", ",", " ", "7", "<", "B", "R", "/", ">", "a", ">", "]", "\n">>
\*   "1"[label=<&lt;o&gt;.c, 3> ]
NodeLineB ==
    <<" ", " ", "\"", "1", "\"", "[", "l", "a", "b", "e", "l", "=", "<", "&",
      "l", "t", ";", "o", "&", "g", "t", ";", ".", "c", ",", " ", "3", ">",
      " ", "]", "\n">>
\* "1" -> "2"
EdgeLine ==
    <<"\"", "1", "\"", " ", "-", ">", " ", "\"", "2", "\"", "\n">>
\* digraph "f" {
HeaderLine ==
    <<"d", "i", "g", "r", "a", "p", "h", " ", "\"", "f", "\"", " ", "{", "\n">>
\* "2" [label = <a>] "1" -> "2"
BothLine ==
    <<"\"", "2", "\"", " ", "[", "l", "a", "b", "e", "l", " ", "=", " ", "<",
      "a", ">", "]", " ", "\"", "1", "\"", " ", "-", ">", " ", "\"", "2",
      "\"", "\n">>

DotLines == {NodeLineA, NodeLineB, EdgeLine, HeaderLine, BothLine}

\* os.listdir(out_dir): the graph files, named <graph_id>-cfg.dot
DotFileNames == << <<"0", "-", "c", "f", "g">>, <<"1", "-", "c", "f", "g">> >>
\* int(fname.split("-")[0]) of the k-th file
NotDash == AllBut({"-"})
GraphId(k) == IntOf(SubSeq(DotFileNames[k], 1, RunLength(DotFileNames[k], NotDash)))

Scripts == {"dot_to_json", "dot_to_llm_index", "dot_to_kuzu_csv"}

Node(node_id, info) ==
    [id |-> node_id, operation_type |-> info.operation_type, line |-> info.line,
     snippet |-> info.snippet]

\* nodes[node_id] = node_info on a dict: a key that is there keeps its place
DictSetNode(d, node_id, info) ==
    IF \E i \in DOMAIN d : d[i].id = node_id
    THEN [i \in DOMAIN d |-> IF d[i].id = node_id THEN Node(node_id, info) ELSE d[i]]
    ELSE Append(d, Node(node_id, info))

\* The file being read
Current == dotInput[Len(dotInput)]

DotInit ==
    /\ CsvIdle
    /\ ChainIdle
    /\ PureIdle
    /\ script \in Scripts
    /\ dotInput = <<>>
    /\ npc = "loop"
    /\ nodes = <<>>
    /\ edgelist = <<>>
    /\ graphs = <<>>
    /\ node_rows = <<>>
    /\ edge_rows = <<>>

\* The loop takes the next file and open(filepath) succeeds.
OpenFile ==
    /\ npc = "loop"
    /\ Len(dotInput) < Len(DotFileNames)
    /\ dotInput' = Append(dotInput, [lines |-> <<>>, failed |-> FALSE])
    /\ nodes' = <<>>
    /\ edgelist' = <<>>
    /\ npc' = "reading"
    /\ UNCHANGED <<script, graphs, node_rows, edge_rows>>
    /\ UNCHANGED notNormVars

\* What an exception out of parse_dot_file does: dot_to_json.py and
\* dot_to_llm_index.py catch it in the loop and go on, dot_to_kuzu_csv.py
\* calls parse_dot_file outside its try and ends with the traceback.
Raised ==
    /\ npc' = IF script = "dot_to_kuzu_csv" THEN "aborted" ELSE "loop"
    /\ UNCHANGED <<script, nodes, edgelist, graphs, node_rows, edge_rows>>
    /\ UNCHANGED notNormVars

\* The loop takes the next file and open(filepath) raises.
OpenFails ==
    /\ npc = "loop"
    /\ Len(dotInput) < Len(DotFileNames)
    /\ dotInput' = Append(dotInput, [lines |-> <<>>, failed |-> TRUE])
    /\ Raised

\* One turn of `for line in f`: both patterns are tried on the line.
ReadLine ==
    /\ npc = "reading"
    /\ Len(Current.lines) < MaxLines
    /\ \E line \in DotLines :
         LET n == NodeMatch(line)
             e == EdgeMatch(line)
             k == Len(dotInput)
         IN  /\ dotInput' = [dotInput EXCEPT ![k].lines = Append(@, line)]
             /\ nodes' = IF n = <<>> \/ script = "dot_to_kuzu_csv" THEN nodes
                         ELSE IF script = "dot_to_json"
                         THEN Append(nodes, Node(n[1], parse_node_label(n[2])))
                         ELSE DictSetNode(nodes, n[1], parse_node_label(n[2]))
             /\ edgelist' = IF e = <<>> \/ script = "dot_to_kuzu_csv" THEN edgelist
                            ELSE Append(edgelist, e)
             /\ node_rows' = IF n # <<>> /\ script = "dot_to_kuzu_csv"
                             THEN Append(node_rows, << n[1], clean_label(n[2]), GraphId(k) >>)
                             ELSE node_rows
             /\ edge_rows' = IF e # <<>> /\ script = "dot_to_kuzu_csv"
                             THEN Append(edge_rows, << e[1], e[2], GraphId(k) >>)
                             ELSE edge_rows
    /\ UNCHANGED <<script, npc, graphs>>
    /\ UNCHANGED notNormVars

\* Reading on raises (the file cannot be decoded, the device fails).
ReadFails ==
    /\ npc = "reading"
    /\ dotInput' = [dotInput EXCEPT ![Len(dotInput)].failed = TRUE]
    /\ Raised

\* The file ends: parse_dot_file returns and the loop stores the graph.
EndOfFile ==
    /\ npc = "reading"
    /\ graphs' = IF script = "dot_to_kuzu_csv" THEN graphs
                 ELSE Append(graphs, [name |-> DotFileNames[Len(dotInput)],
                                      nodes |-> nodes, edges |-> edgelist])
    /\ npc' = "loop"
    /\ UNCHANGED <<script, dotInput, nodes, edgelist, node_rows, edge_rows>>
    /\ UNCHANGED notNormVars

\* After the last file the script writes its output files.
WriteOutput ==
    /\ npc = "loop"
    /\ Len(dotInput) = Len(DotFileNames)
    /\ npc' = "written"
    /\ UNCHANGED <<script, dotInput, nodes, edgelist, graphs, node_rows, edge_rows>>
    /\ UNCHANGED notNormVars

DotNext == OpenFile \/ OpenFails \/ ReadLine \/ ReadFails \/ EndOfFile \/ WriteOutput

DotSpec == DotInit /\ [][DotNext]_vars

-----------------------------------------------------------------------------
(* The adjacency maps call_graph and called_by, as built by                  *)
(* dot_to_llm_index.build_call_graph, extract_call_graph.build_call_graph    *)
(* and simple_call_analyzer.build_call_graph_from_source: one turn of the    *)
(* builder's loop per step, on edges and calls drawn from bounded sets.      *)

MaxEdges == 2

Colon == <<":">>
NamePrint == <<"p", "r", "i", "n", "t">>
APy == <<"a", ".", "p", "y">>
BPy == <<"b", ".", "p", "y">>
\* sample_project/main.py
MainPy ==
    <<"s", "a", "m", "p", "l", "e", "_", "p", "r", "o", "j", "e", "c", "t",
      "/", "m", "a", "i", "n", ".", "p", "y">>
BuiltinPrefix == <<"b", "u", "i", "l", "t", "i", "n", ":">>
ExternalPrefix == <<"e", "x", "t", "e", "r", "n", "a", "l", ":">>

\* call_graph = defaultdict(list); called_by = defaultdict(list)
NoEdges == [call_graph |-> EmptyListDict, called_by |-> EmptyListDict]

\* Mutant: only the forward map is extended.
AddEdgeForwardOnly(m, src, tgt) ==
    [m EXCEPT !.call_graph = ListDictAppend(@, src, tgt)]

\* call_graph[src].append(tgt); called_by[tgt].append(src)
AddEdge(m, src, tgt) ==
    [call_graph |-> ListDictAppend(m.call_graph, src, tgt),
     called_by |-> ListDictAppend(m.called_by, tgt, src)]

\* dot_to_llm_index.py.  What extract_function_name finds in the snippet of
\* the node: nodes "1" and "2" define f and g, node "3" has a snippet without a
\* name, any other id is not in `nodes`; <<>> is None.
IndexFunc(node_id) ==
    IF node_id = <<"1">> THEN <<"f">>
    ELSE IF node_id = <<"2">> THEN <<"g">>
    ELSE <<>>
IndexIds == {<<"1">>, <<"2">>, <<"3">>, <<"4">>}
IndexEdges == IndexIds \X IndexIds

\* get_function_source_file for a name that is in none of its lists
get_function_source_file(func_name) == MainPy

\* One turn of the loop of build_call_graph(nodes, edges, ...)
IndexInsert(m, e) ==
    LET src_func == IndexFunc(e[1])
        tgt_func == IndexFunc(e[2])
    IN  IF src_func # <<>> /\ tgt_func # <<>>
        THEN AddEdge(m, get_function_source_file(src_func) \o Colon \o src_func,
                        get_function_source_file(tgt_func) \o Colon \o tgt_func)
        ELSE m

\* extract_call_graph.py.  `methods` is a dict in insertion order.
CpgMethod(id, name, filename) == [id |-> id, name |-> name, filename |-> filename]
SampleCpgMethods == << CpgMethod(<<"1">>, <<"f">>, APy), CpgMethod(<<"2">>, <<"g">>, BPy) >>
CpgCall(callerId, calleeName) == [callerId |-> callerId, calleeName |-> calleeName]
SampleCpgCalls ==
    {CpgCall(c, n) : c \in {<<"1">>, <<"2">>, <<"9">>}, n \in {<<"f">>, <<"g">>, NamePrint}}

\* Where a `for ... break` loop over a dict stops: the first of the entries
\* that pass its test (0: none passes)
First(hits) == IF hits = {} THEN 0 ELSE CHOOSE i \in hits : \A j \in hits : i <= j

\* One turn of the loop of build_call_graph(methods, calls, method_refs)
CpgInsert(m, methods, call) ==
    LET caller == First({i \in DOMAIN methods : methods[i].id = call.callerId})
        callee == First({i \in DOMAIN methods : methods[i].name = call.calleeName})
    IN  IF caller # 0
        THEN AddEdge(m, methods[caller].filename \o Colon \o methods[caller].name,
                        IF callee # 0
                        THEN methods[callee].filename \o Colon \o methods[callee].name
                        ELSE BuiltinPrefix \o call.calleeName)
        ELSE m

\* simple_call_analyzer.py.  all_functions, in insertion order, and all_calls
SourceFunction(file, function, line) ==
    [id |-> file \o Colon \o function, file |-> file, function |-> function, line |-> line]
SampleFunctions == << SourceFunction(APy, <<"f">>, 1), SourceFunction(BPy, <<"g">>, 5) >>
SourceCall(file, function_name, line) ==
    [file |-> file, function_name |-> function_name, line |-> line]
SampleSourceCalls ==
    {SourceCall(f, n, l) : f \in {APy, BPy}, n \in {<<"f">>, <<"g">>, NamePrint}, l \in {3, 7}}

\* One turn of the loop of build_call_graph_from_source
SourceInsert(m, all_functions, call) ==
    LET caller == First({i \in DOMAIN all_functions :
                           /\ all_functions[i].file = call.file
                           /\ all_functions[i].line <= call.line})
        callee == First({i \in DOMAIN all_functions :
                           all_functions[i].function = call.function_name})
    IN  IF caller # 0
        THEN AddEdge(m, all_functions[caller].id,
                        IF callee # 0 THEN all_functions[callee].id
                        ELSE ExternalPrefix \o call.function_name)
        ELSE m

Builders == {"dot_to_llm_index", "extract_call_graph", "simple_call_analyzer"}

\* fnArg is the edges (calls) the loop has gone through, fnRet the two maps
AdjInit ==
    /\ CsvIdle
    /\ ChainIdle
    /\ NormIdle
    /\ applied \in Builders
    /\ fnArg = <<>>
    /\ fnRet = NoEdges

IndexEdge ==
    /\ applied = "dot_to_llm_index"
    /\ Len(fnArg) < MaxEdges
    /\ \E e \in IndexEdges :
         /\ fnArg' = Append(fnArg, e)
         /\ fnRet' = IndexInsert(fnRet, e)
    /\ UNCHANGED applied
    /\ UNCHANGED notPureVars

CpgEdge ==
    /\ applied = "extract_call_graph"
    /\ Len(fnArg) < MaxEdges
    /\ \E call \in SampleCpgCalls :
         /\ fnArg' = Append(fnArg, call)
         /\ fnRet' = CpgInsert(fnRet, SampleCpgMethods, call)
    /\ UNCHANGED applied
    /\ UNCHANGED notPureVars

SourceEdge ==
    /\ applied = "simple_call_analyzer"
    /\ Len(fnArg) < MaxEdges
    /\ \E call \in SampleSourceCalls :
         /\ fnArg' = Append(fnArg, call)
         /\ fnRet' = SourceInsert(fnRet, SampleFunctions, call)
    /\ UNCHANGED applied
    /\ UNCHANGED notPureVars

AdjNext == IndexEdge \/ CpgEdge \/ SourceEdge

AdjSpec == AdjInit /\ [][AdjNext]_vars

-----------------------------------------------------------------------------
(* extract_call_graph.py: parse_cpg_output on the text the CPG query prints, *)
(* then build_call_graph on what it parsed.                                  *)

MaxCpgLines == 2

\* METHOD: 12|f|m.f|a.py|3|def f
MethodLine12 ==
    <<"M", "E", "T", "H", "O", "D", ":", " ", "1", "2", "|", "f", "|", "m",
      ".", "f", "|", "a", ".", "p", "y", "|", "3", "|", "d", "e", "f", " ",
      "f">>
\* METHOD: 2|g|m.g|b.py|x|def g
MethodLine2 ==
    <<"M", "E", "T", "H", "O", "D", ":", " ", "2", "|", "g", "|", "m", ".",
      "g", "|", "b", ".", "p", "y", "|", "x", "|", "d", "e", "f", " ", "g">>
\* METHOD: 12|f
MethodLineShort ==
    <<"M", "E", "T", "H", "O", "D", ":", " ", "1", "2", "|", "f">>
\* CALL: 12|f|a.py|4|g|g()|4
CallLine12 ==
    <<"C", "A", "L", "L", ":", " ", "1", "2", "|", "f", "|", "a", ".", "p",
      "y", "|", "4", "|", "g", "|", "g", "(", ")", "|", "4">>
\* CALL: 12|f|a.py|x|g|g()|
CallLineNoNumbers ==
    <<"C", "A", "L", "L", ":", " ", "1", "2", "|", "f", "|", "a", ".", "p",
      "y", "|", "x", "|", "g", "|", "g", "(", ")", "|">>
\* CALL: 12|f|a.py
CallLineShort ==
    <<"C", "A", "L", "L", ":", " ", "1", "2", "|", "f", "|", "a", ".", "p",
      "y">>
\* METHOD_REF: 7|g|g|2
MethodRefLine ==
    <<"M", "E", "T", "H", "O", "D", "_", "R", "E", "F", ":", " ", "7", "|",
      "g", "|", "g", "|", "2">>
\* joern> done
OtherLine ==
    <<"j", "o", "e", "r", "n", ">", " ", "d", "o", "n", "e">>
\* METHOD: 
MethodPrefix ==
    <<"M", "E", "T", "H", "O", "D", ":", " ">>
\* CALL: 
CallPrefix ==
    <<"C", "A", "L", "L", ":", " ">>
\* METHOD_REF: 
MethodRefPrefix ==
    <<"M", "E", "T", "H", "O", "D", "_", "R", "E", "F", ":", " ">>

CpgLines ==
    {MethodLine12, MethodLine2, MethodLineShort, CallLine12, CallLineNoNumbers,
     CallLineShort, MethodRefLine, OtherLine}

\* What the query prints: one line per row, each ended by a newline
CpgOutputs ==
    {Flatten([i \in DOMAIN ls |-> ls[i] \o <<"\n">>]) : ls \in SeqsUpTo(CpgLines, MaxCpgLines)}

\* str.strip()
Strip(s) ==
    LET inner == {i \in DOMAIN s : ~IsSpace(s[i])}
    IN  IF inner = {} THEN <<>>
        ELSE SubSeq(s, CHOOSE i \in inner : \A j \in inner : i <= j,
                       CHOOSE i \in inner : \A j \in inner : i >= j)

\* str.split(sep) for a one-character sep
RECURSIVE Split(_, _)
Split(s, sep) ==
    LET n == RunLength(s, AllBut({sep}))
    IN  IF n = Len(s) THEN << s >>
        ELSE << SubSeq(s, 1, n) >> \o Split(Drop(s, n + 1), sep)

\* int(x) if x.isdigit() else 0
IntOrZero(x) == IF x # <<>> /\ \A i \in DOMAIN x : IsDigit(x[i]) THEN IntOf(x) ELSE 0

\* d[key] = record on a dict kept as a sequence of records with an id
DictSetRecord(d, rec) ==
    IF \E i \in DOMAIN d : d[i].id = rec.id
    THEN [i \in DOMAIN d |-> IF d[i].id = rec.id THEN rec ELSE d[i]]
    ELSE Append(d, rec)

NothingParsed == [methods |-> <<>>, calls |-> <<>>, method_refs |-> <<>>]

\* One turn of `for line in lines`
ParseCpgLine(acc, line) ==
    IF StartsWith(line, MethodPrefix)
    THEN LET parts == Split(Drop(line, 8), "|")
         IN  IF Len(parts) >= 6
             THEN [acc EXCEPT !.methods = DictSetRecord(@,
                     [id |-> parts[1], name |-> parts[2], fullName |-> parts[3],
                      filename |-> parts[4], lineNumber |-> IntOrZero(parts[5]),
                      code |-> parts[6]])]
             ELSE acc
    ELSE IF StartsWith(line, CallPrefix)
    THEN LET parts == Split(Drop(line, 7), "|")
         IN  IF Len(parts) >= 7
             THEN [acc EXCEPT !.calls = Append(@,
                     [callerId |-> parts[1], callerName |-> parts[2],
                      callerFile |-> parts[3], callerLine |-> IntOrZero(parts[4]),
                      calleeName |-> parts[5], calleeCode |-> parts[6],
                      lineNumber |-> IntOrZero(parts[7])])]
             ELSE acc
    ELSE IF StartsWith(line, MethodRefPrefix)
    THEN LET parts == Split(Drop(line, 12), "|")
         IN  IF Len(parts) >= 4
             THEN [acc EXCEPT !.method_refs = DictSetRecord(@,
                     [id |-> parts[1], name |-> parts[2], code |-> parts[3],
                      lineNumber |-> IntOrZero(parts[4])])]
             ELSE acc
    ELSE acc

RECURSIVE ParseCpgLines(_, _)
ParseCpgLines(acc, lines) ==
    IF lines = <<>> THEN acc
    ELSE ParseCpgLines(ParseCpgLine(acc, Head(lines)), Tail(lines))

parse_cpg_output(output) == ParseCpgLines(NothingParsed, Split(Strip(output), "\n"))

RECURSIVE CpgInsertAll(_, _, _)
CpgInsertAll(m, methods, calls) ==
    IF calls = <<>> THEN m
    ELSE CpgInsertAll(CpgInsert(m, methods, Head(calls)), methods, Tail(calls))

\* build_call_graph(methods, calls, method_refs)
build_call_graph(parsed) == CpgInsertAll(NoEdges, parsed.methods, parsed.calls)

CpgInit ==
    /\ CsvIdle
    /\ ChainIdle
    /\ NormIdle
    /\ applied = "none"
    /\ fnArg \in CpgOutputs
    /\ fnRet = <<>>

\* methods, calls, method_refs = parse_cpg_output(output)
ParseCpgOutput ==
    /\ applied = "none"
    /\ applied' = "parse_cpg_output"
    /\ fnRet' = [parsed |-> parse_cpg_output(fnArg), built |-> NoEdges]
    /\ UNCHANGED fnArg
    /\ UNCHANGED notPureVars

\* call_graph, called_by = build_call_graph(methods, calls, method_refs)
BuildCallGraph ==
    /\ applied = "parse_cpg_output"
    /\ applied' = "build_call_graph"
    /\ fnRet' = [fnRet EXCEPT !.built = build_call_graph(fnRet.parsed)]
    /\ UNCHANGED fnArg
    /\ UNCHANGED notPureVars

CpgNext == ParseCpgOutput \/ BuildCallGraph

CpgSpec == CpgInit /\ [][CpgNext]_vars

-----------------------------------------------------------------------------
(* Claims about the loader and the tool boundary *)

InLock(t) ==
    pc[t] \in {"recheck", "construct", "load_data", "load_methods", "load_calls",
               "assign", "return", "release"}
Constructing(t) == pc[t] \in {"load_data", "load_methods", "load_calls", "assign"}
LoadFailed == \E t \in Tasks : exc[t] = "FileNotFoundError"
Loaded == BuildParser(methodsCsv, callsCsv)

\* C1: with both files present from the start, concurrent first use constructs
\* CSVCallGraphParser exactly once, and every call gets the same instance,
\* holding the same, fully loaded tables.
C1_LoadedOnce ==
    presentAtStart =>
      /\ loadCount <= 1
      /\ \A t \in Tasks : got[t] # 0 =>
            /\ loadCount = 1
            /\ got[t] = parser
            /\ got[t] \in DOMAIN heap /\ heap[got[t]] = Loaded
      /\ \A t, u \in Tasks : (got[t] # 0 /\ got[u] # 0) => got[t] = got[u]

\* Two calls both found no index; one constructed it and has its parser, the
\* other went through the lock and is about to return the same one.
C1_Witness ==
    /\ presentAtStart
    /\ loadCount = 1
    /\ \E t, u \in Tasks :
         /\ t # u
         /\ pc[t] \in {"query", "done"} /\ got[t] = parser /\ parser # 0
         /\ pc[u] = "return"

\* C2 (as claimed): after a construction attempt failed on missing files no
\* further attempt is started, the index is never built and no call succeeds.
C2_TerminalFailure ==
    LoadFailed =>
      /\ loadCount = 1
      /\ parser = 0
      /\ \A t \in Tasks : pc[t] = "done" => ~resp[t].success

\* C3: construction happens under the lock, by one call at a time, and the
\* object is bound to _parser, and returned, only when both tables are loaded.
C3_ExclusiveConstruction ==
    /\ \A t \in Tasks : InLock(t) => locked
    /\ \A t, u \in Tasks : (InLock(t) /\ InLock(u)) => t = u
    /\ \A t \in Tasks : Constructing(t) =>
          /\ building[t] \in DOMAIN heap
          /\ parser = 0
          /\ \A u \in Tasks : got[u] = 0
    /\ parser # 0 => (parser \in DOMAIN heap /\ heap[parser] = Loaded)
    /\ \A t \in Tasks : got[t] # 0 => (got[t] = parser /\ heap[got[t]] = Loaded)

\* One call has read methods.csv but not calls.csv; another waits for the lock.
C3_Witness ==
    \E t, u \in Tasks :
      /\ pc[t] = "load_calls"
      /\ heap[building[t]] # Loaded
      /\ pc[u] = "waiting"

\* C4: under fair scheduling every started tool call ends with a response.
C4_EveryCallResponds ==
    \A t \in Tasks : (pc[t] # "idle") ~> (pc[t] = "done" /\ resp[t] # NoResponse)

\* A call waits for the lock while the holder's construction attempt has failed
\* and the exception is about to leave the with block.
C4_Witness ==
    \E t, u \in Tasks :
      /\ pc[t] = "release" /\ exc[t] = "FileNotFoundError"
      /\ pc[u] = "waiting"

\* C5: a finished tool call has returned a response of its own tool, never
\* raised; a failure carries no payload and a message, a success no message.
C5_StructuredResponse ==
    \A t \in Tasks : pc[t] = "done" =>
      /\ ~resp[t].raised
      /\ resp[t].tool = tool[t].name
      /\ ~resp[t].success => (resp[t].payload = <<>> /\ resp[t].error # "")
      /\ resp[t].success => resp[t].error = ""

\* A tool call met the failed load and returned the structured failure.
C5_Witness ==
    /\ pc[Client] = "done"
    /\ exc[Client] = "FileNotFoundError"
    /\ ~resp[Client].success
    /\ resp[Client].error = StrOfException("FileNotFoundError")

-----------------------------------------------------------------------------
(* Claims about the queries, stated on the input files *)

Range(l) == {l[i] : i \in DOMAIN l}
IsSortedStrict(l) == \A i \in 1..(Len(l) - 1) : StrLess(l[i], l[i + 1])

\* Rows of methods.csv whose full name has the short name `name`
RowsNamed(name) ==
    {i \in DOMAIN methodsCsv : extract_function_name(methodsCsv[i].full_name) = name}
\* Identifiers listed under `name`
CsvCandidates(name) == {methodsCsv[i].method_id : i \in RowsNamed(name)}
\* Identifiers of the method table
TableIds == {methodsCsv[i].method_id : i \in DOMAIN methodsCsv}
\* The record the method table holds for an identifier: its last row
TableRecord(id) ==
    LET rows == {i \in DOMAIN methodsCsv : methodsCsv[i].method_id = id}
    IN  methodsCsv[CHOOSE i \in rows : \A j \in rows : j <= i]
ShortNamesOfFile == {extract_function_name(methodsCsv[i].full_name) : i \in DOMAIN methodsCsv}

Answered(name) == pc[Client] = "done" /\ resp[Client].tool = name /\ exc[Client] = "none"

\* C6: get_callers(name) is the sorted, duplicate-free list of the full names
\* of the sources of all edges whose target is one of the candidates of name.
C6_Callers ==
    Answered("get_callers") =>
      LET r     == resp[Client]
          cands == CsvCandidates(r.arg)
          edges == {i \in DOMAIN callsCsv :
                      /\ callsCsv[i].callee_id \in cands
                      /\ callsCsv[i].caller_id \in TableIds}
          srcs  == {TableRecord(callsCsv[i].caller_id).full_name : i \in edges}
      IN  /\ r.success
          /\ IsSortedStrict(r.payload)
          /\ Range(r.payload) = srcs
          /\ r.count = Len(r.payload)

\* An ambiguous name with two candidates, each called by a different function.
C6_Witness ==
    /\ Answered("get_callers")
    /\ Cardinality(CsvCandidates(resp[Client].arg)) = 2
    /\ Len(resp[Client].payload) = 2

\* The row carries a raw callee name that is neither empty nor the placeholder
NamedRaw(c) ==
    /\ "callee_full_name" \in DOMAIN c
    /\ Len(c.callee_full_name) > 0
    /\ c.callee_full_name #
         <<"<", "u", "n", "k", "n", "o", "w", "n", "F", "u", "l", "l", "N", "a", "m", "e", ">">>

ResolvedTarget(c) == c.callee_id # Sentinel /\ c.callee_id \in TableIds

\* C7: get_callees(name) is sorted and duplicate-free; every edge from a
\* candidate contributes the target's full name when the target resolves, and
\* its usable raw name when the target is the sentinel; every entry comes from
\* such an edge, or from an edge whose target is neither resolved nor the
\* sentinel (on which the claim is silent); sentinel edges without a usable raw
\* name contribute nothing.
C7_Callees ==
    Answered("get_callees") =>
      LET r     == resp[Client]
          cands == CsvCandidates(r.arg)
          edges == {i \in DOMAIN callsCsv : callsCsv[i].caller_id \in cands}
      IN  /\ r.success
          /\ IsSortedStrict(r.payload)
          /\ r.count = Len(r.payload)
          /\ \A i \in edges :
               LET c == callsCsv[i]
               IN  /\ ResolvedTarget(c) =>
                          TableRecord(c.callee_id).full_name \in Range(r.payload)
                   /\ (c.callee_id = Sentinel /\ NamedRaw(c)) =>
                          c.callee_full_name \in Range(r.payload)
          /\ \A x \in Range(r.payload) :
               \E i \in edges :
                 LET c == callsCsv[i]
                 IN  \/ ResolvedTarget(c) /\ x = TableRecord(c.callee_id).full_name
                     \/ c.callee_id = Sentinel /\ NamedRaw(c) /\ x = c.callee_full_name
                     \/ ~ResolvedTarget(c) /\ c.callee_id # Sentinel
          /\ (\A i \in edges : callsCsv[i].callee_id = Sentinel /\ ~NamedRaw(callsCsv[i]))
                => r.payload = <<>>

\* A function with a resolved callee and a call to unanalysed code: both are
\* listed, the raw name first.
C7_Witness ==
    /\ Answered("get_callees")
    /\ Len(resp[Client].payload) = 2
    /\ resp[Client].payload[1] = RawExt
    /\ \E i \in DOMAIN callsCsv :
         callsCsv[i].callee_id = Sentinel /\ NamedRaw(callsCsv[i])
    /\ \E i \in DOMAIN callsCsv : ResolvedTarget(callsCsv[i])

\* C8: for every call row whose two identifiers are in the method table, the
\* callee's full name is among the callees of the caller's short name, and the
\* caller's full name among the callers of the callee's short name.
C8_InverseConsistent ==
    \A i \in DOMAIN callsCsv :
      LET c == callsCsv[i]
      IN  (c.caller_id \in TableIds /\ c.callee_id \in TableIds) =>
            LET A == TableRecord(c.caller_id)
                B == TableRecord(c.callee_id)
                r == resp[Client]
            IN  /\ (Answered("get_callees") /\ r.arg = extract_function_name(A.full_name))
                      => B.full_name \in Range(r.payload)
                /\ (Answered("get_callers") /\ r.arg = extract_function_name(B.full_name))
                      => A.full_name \in Range(r.payload)

\* A call between two different known functions, seen from the callee's side.
C8_Witness ==
    /\ Answered("get_callers")
    /\ \E i \in DOMAIN callsCsv :
         LET c == callsCsv[i]
         IN  /\ c.caller_id \in TableIds /\ c.callee_id \in TableIds
             /\ c.caller_id # c.callee_id
             /\ resp[Client].arg = extract_function_name(TableRecord(c.callee_id).full_name)
             /\ TableRecord(c.caller_id).full_name \in Range(resp[Client].payload)

\* C9 (as claimed): get_function_details(name) returns the identifier, full
\* name, signature and file of the first row of methods.csv with that short
\* name, and not-found exactly when no row has it.
C9_FirstRecordDetails ==
    Answered("get_function_details") =>
      LET r    == resp[Client]
          rows == RowsNamed(r.arg)
      IN  IF rows = {}
          THEN ~r.success /\ r.payload = <<>> /\ r.error = "Function not found"
          ELSE LET first == methodsCsv[CHOOSE i \in rows : \A j \in rows : i <= j]
               IN  /\ r.success
                   /\ r.payload = << [method_id |-> first.method_id,
                                      full_name |-> first.full_name,
                                      signature |-> first.signature,
                                      file |-> first.file] >>

\* C10: search_functions(q) is the sorted, duplicate-free list of the short
\* names whose lower-case form contains q.lower(); the empty query lists all.
C10_Search ==
    Answered("search_functions") =>
      LET r    == resp[Client]
          hits == {n \in ShortNamesOfFile : StrContains(StrLower(r.arg), StrLower(n))}
      IN  /\ r.success
          /\ IsSortedStrict(r.payload)
          /\ Range(r.payload) = hits
          /\ r.count = Len(r.payload)
          /\ r.arg = <<>> => Range(r.payload) = ShortNamesOfFile

\* The empty query on a file that names f before G: both are listed, G first.
C10_Witness ==
    /\ Answered("search_functions")
    /\ resp[Client].arg = <<>>
    /\ resp[Client].payload = <<NameG, NameF>>
    /\ extract_function_name(methodsCsv[1].full_name) = NameF

-----------------------------------------------------------------------------
(* Claims about get_call_chain *)

\* The function names of the index: the keys and the callees of its graphs
NodesOf(gd) ==
    UNION { (DOMAIN gd[k]) \cup UNION { Range(gd[k][n]) : n \in DOMAIN gd[k] }
            : k \in DOMAIN gd }
ChainAnswered == cpc = "done"

\* C11 (as claimed): get_call_chain(X, 0) returns the one-element chain [X]
\* for every function X of the index.
C11_DepthZeroIsStart ==
    (ChainAnswered /\ request.max_depth = 0
       /\ request.function_name \in NodesOf(graph_data))
      => reply.chain = <<request.function_name>>

\* C12 (as claimed): the chain get_call_chain returns lists no function twice,
\* so it is no longer than the number of functions.
C12_NoRepeats ==
    ChainAnswered =>
      /\ \A i, j \in DOMAIN reply.chain : reply.chain[i] = reply.chain[j] => i = j
      /\ Len(reply.chain) <=
           Cardinality(NodesOf(graph_data) \cup {request.function_name})

\* C13: a get_call_chain call that has started returns, whatever the graph and
\* the depth limit.
C13_Terminates == (cpc = "running") ~> (cpc = "done")

\* The traversal of the three-function cycle came back to its start, did not
\* enter it again, and returned.
C13_Witness ==
    /\ ChainAnswered
    /\ graph_data = Cycle3
    /\ request.max_depth >= 3
    /\ reply.chain = <<"A", "B", "C">>

-----------------------------------------------------------------------------
(* Claims about the built index *)

\* The places of an identifier in the candidate lists of the ShortName Index
Places(idx, id) ==
    {<<k, i>> \in (DOMAIN idx.lists) \X (1..Len(methodsCsv)) :
        i <= Len(idx.lists[k]) /\ idx.lists[k][i] = id}

\* C14 (as claimed): methods_by_name has one entry per short name of the file,
\* every identifier of the method table is in exactly one candidate list,
\* once, and the lists hold identifiers of the table only, also when
\* methods.csv repeats a method_id.
C14_IndexPartition ==
    parser # 0 =>
      LET p   == heap[parser]
          idx == p.methods_by_name
      IN  /\ \A i, j \in DOMAIN idx.keys : idx.keys[i] = idx.keys[j] => i = j
          /\ Range(idx.keys) = ShortNamesOfFile
          /\ DOMAIN idx.lists = ShortNamesOfFile
          /\ \A id \in DOMAIN p.methods : Cardinality(Places(idx, id)) = 1
          /\ \A k \in DOMAIN idx.lists : Range(idx.lists[k]) \subseteq DOMAIN p.methods

\* C15: once the index is loaded no tool call changes the parser object: at
\* every moment its method table, ShortName Index and call list are those
\* built from the files, after a lookup of an unknown name too; so every
\* answer is the answer of the query on the index as built, whatever was asked
\* before.
C15_QueriesReadOnly ==
    /\ parser # 0 => (parser \in DOMAIN heap /\ heap[parser] = Loaded)
    /\ parser # 0 =>
         LET idx == heap[parser].methods_by_name
         IN  Range(idx.keys) = ShortNamesOfFile /\ DOMAIN idx.lists = ShortNamesOfFile
    /\ \A t \in Tasks : (pc[t] = "done" /\ exc[t] = "none") =>
            resp[t] = ToolTry(tool[t], Loaded, TRUE)

\* get_function_details of a name the loaded index does not hold has answered
\* not-found, and the ShortName Index has no entry for the name.
C15_Witness ==
    /\ Answered("get_function_details")
    /\ resp[Client].arg = NameZ
    /\ ~resp[Client].success
    /\ parser # 0
    /\ methodsCsv # <<>>
    /\ NameZ \notin DOMAIN heap[parser].methods_by_name.lists
    /\ NameZ \notin Range(heap[parser].methods_by_name.keys)

\* C16: a name without candidates is no error for the list-valued tools:
\* get_callers and get_callees, and search_functions without a match, answer
\* success with the empty list and count 0; get_function_details answers
\* failure with the not-found error.
C16_EmptyIsSuccess ==
    LET r       == resp[Client]
        unknown == CsvCandidates(r.arg) = {}
        nohit   == \A n \in ShortNamesOfFile : ~StrContains(StrLower(r.arg), StrLower(n))
        empty   == r.success /\ r.payload = <<>> /\ r.count = 0 /\ r.error = ""
    IN  /\ (Answered("get_callers") /\ unknown) => empty
        /\ (Answered("get_callees") /\ unknown) => empty
        /\ (Answered("search_functions") /\ nohit) => empty
        /\ (Answered("get_function_details") /\ unknown) =>
              (~r.success /\ r.payload = <<>> /\ r.error = "Function not found")

\* get_callers of a name the loaded, non-empty index does not hold has
\* answered success with no caller.
C16_Witness ==
    /\ Answered("get_callers")
    /\ resp[Client].arg = NameZ
    /\ methodsCsv # <<>>
    /\ resp[Client].success
    /\ resp[Client].count = 0

\* C17: once _parser is set it keeps its value and the object keeps its
\* tables: no step of any tool call resets or replaces it, starts another
\* construction or reads the input files again.
C17_LoadedForGood ==
    [][parser # 0 =>
         /\ parser' = parser
         /\ loadCount' = loadCount
         /\ parser \in DOMAIN heap' /\ heap'[parser] = heap[parser]
         /\ \A t \in Tasks :
              pc'[t] \notin {"construct", "load_data", "load_methods", "load_calls", "assign"}
      ]_vars

\* The index was loaded once; one call has been answered from it and a later
\* call has been handed the same object.
C17_Witness ==
    /\ parser # 0
    /\ loadCount = 1
    /\ \E t, u \in Tasks :
         /\ t # u
         /\ pc[t] = "done" /\ resp[t].success
         /\ pc[u] = "query" /\ got[u] = parser

-----------------------------------------------------------------------------
(* Claims about short names *)

\* The text of s after the last c, for s containing c
AfterLast(s, c) ==
    LET k == CHOOSE i \in 1..Len(s) : s[i] = c /\ \A j \in (i + 1)..Len(s) : s[j] # c
    IN  SubSeq(s, k + 1, Len(s))

\* C18: _extract_function_name returns the text after the last ':', or, when
\* that text contains '.', the text after its last '.'; a name without ':' is
\* returned unchanged.  path/file.py:Class.method gives method and
\* path/file.py:func gives func.
C18_ShortNameRule ==
    applied = "_extract_function_name" =>
      /\ IF ":" \in Range(fnArg)
         THEN LET rem == AfterLast(fnArg, ":")
              IN  fnRet = IF "." \in Range(rem) THEN AfterLast(rem, ".") ELSE rem
         ELSE fnRet = fnArg
      /\ fnArg = PathFileClassMethod => fnRet = <<"m", "e", "t", "h", "o", "d">>
      /\ fnArg = PathFileFunc => fnRet = <<"f", "u", "n", "c">>

\* The short name of path/file.py:Class.method has been extracted.
C18_Witness ==
    /\ applied = "_extract_function_name"
    /\ fnArg = PathFileClassMethod
    /\ fnRet = <<"m", "e", "t", "h", "o", "d">>

\* C19 (as claimed): every key of methods_by_name is the text of the full name
\* after its last '.' or ':', and contains neither.
C19_KeysAreLastSegments ==
    applied = "_load_data" =>
      \A i \in DOMAIN fnRet :
        LET key  == fnRet[i]
            seps == {j \in 1..Len(fnArg) : fnArg[j] \in {".", ":"}}
            last == IF seps = {} THEN 0 ELSE CHOOSE j \in seps : \A k \in seps : k <= j
        IN  /\ "." \notin Range(key)
            /\ ":" \notin Range(key)
            /\ key = SubSeq(fnArg, last + 1, Len(fnArg))

-----------------------------------------------------------------------------
(* Claims about unresolved call targets *)

\* C20 (as claimed): a call row with a dangling callee_id is kept in the call
\* list and counted by get_stats, and get_callees lists no name because of it:
\* every listed name comes from a resolved target or from a sentinel row with
\* a usable raw name.
C20_DanglingContributesNothing ==
    /\ parser # 0 => heap[parser].calls = callsCsv
    /\ Answered("get_call_graph_stats") =>
          resp[Client].payload[1].total_calls = Len(callsCsv)
    /\ Answered("get_callees") =>
          LET r     == resp[Client]
              cands == CsvCandidates(r.arg)
              edges == {i \in DOMAIN callsCsv : callsCsv[i].caller_id \in cands}
          IN  \A x \in Range(r.payload) :
                \E i \in edges :
                  LET c == callsCsv[i]
                  IN  \/ ResolvedTarget(c) /\ x = TableRecord(c.callee_id).full_name
                      \/ c.callee_id = Sentinel /\ NamedRaw(c) /\ x = c.callee_full_name

-----------------------------------------------------------------------------
(* Claims about the statistics *)

\* C21 (as claimed): get_stats reports the number of records of the method
\* table, the number of call rows read and the number of distinct short names;
\* so unique_functions <= total_methods on every built index.
C21_StatsCounts ==
    Answered("get_call_graph_stats") =>
      LET st == resp[Client].payload[1]
      IN  /\ st.total_methods = Cardinality(TableIds)
          /\ st.total_calls = Len(callsCsv)
          /\ st.unique_functions = Cardinality(ShortNamesOfFile)
          /\ st.unique_functions <= st.total_methods

-----------------------------------------------------------------------------
(* Claims about the node labels *)

All(s, class) == \A i \in DOMAIN s : InClass(class, s[i])
At(s, i, p) == i + Len(p) - 1 <= Len(s) /\ SubSeq(s, i, i + Len(p) - 1) = p

\* The readings of a label in the operator form, as decompositions
\*   &lt; a &gt; . b , ws d ...
\* with a free of "&", b free of ",", ws white space and d all the digits that
\* stand there: the pairs <<a.b, value of d>>
OperatorForms(label) ==
    IF ~At(label, 1, LT) THEN {}
    ELSE UNION { UNION { UNION {
           { << SubSeq(label, 5, i) \o <<".">> \o SubSeq(label, i + 6, j),
                IntOf(SubSeq(label, k + 1, l)) >> :
             l \in {l \in (k + 1)..Len(label) :
                      /\ All(SubSeq(label, k + 1, l), Digits)
                      /\ l = Len(label) \/ ~IsDigit(label[l + 1])} } :
           k \in {k \in (j + 1)..Len(label) : All(SubSeq(label, j + 2, k), Spaces)} } :
           j \in {j \in (i + 6)..(Len(label) - 1) :
                    All(SubSeq(label, i + 6, j), NotComma) /\ label[j + 1] = ","} } :
           i \in {i \in 5..Len(label) :
                    All(SubSeq(label, 5, i), NotAmp) /\ At(label, i + 1, GT \o <<".">>)} }

\* The readings in the bare tag form  TAG , ws d <BR/> rest-of-line : the
\* triples <<TAG, value of d, rest>>
TagForms(label) ==
    UNION { UNION { UNION {
      { << SubSeq(label, 1, i), IntOf(SubSeq(label, k + 1, l)), SubSeq(label, l + 6, m) >> :
        m \in {m \in (l + 5)..Len(label) :
                 /\ All(SubSeq(label, l + 6, m), NotNewline)
                 /\ m = Len(label) \/ label[m + 1] = "\n"} } :
      l \in {l \in (k + 1)..Len(label) :
               All(SubSeq(label, k + 1, l), Digits) /\ At(label, l + 1, BR)} } :
      k \in {k \in (i + 1)..Len(label) : All(SubSeq(label, i + 2, k), Spaces)} } :
      i \in {i \in 1..(Len(label) - 1) :
               All(SubSeq(label, 1, i), TagChars) /\ label[i + 1] = ","} }

\* C22: parse_node_label answers every label with the three fields; a label in
\* the operator form gets "a.b" and its line, any other label in the tag form
\* gets the tag, its line and the unescaped text after the break marker, and
\* every other label gets "unknown", line 0 and the unescaped label.
C22_LabelGrammarsInOrder ==
    applied = "parse_node_label" =>
      LET ops  == OperatorForms(fnArg)
          tags == TagForms(fnArg)
      IN  /\ DOMAIN fnRet = {"operation_type", "line", "snippet"}
          /\ fnRet.line \in Nat
          /\ ops # {} => << fnRet.operation_type, fnRet.line >> \in ops
          /\ ops = {} /\ tags # {} =>
               \E t \in tags : /\ fnRet.operation_type = t[1]
                               /\ fnRet.line = t[2]
                               /\ fnRet.snippet = clean_label(t[3])
          /\ ops = {} /\ tags = {} =>
               /\ fnRet.operation_type = Unknown
               /\ fnRet.line = 0
               /\ fnRet.snippet = clean_label(fnArg)

\* Each of the three outcomes has been produced, the fallback for a label that
\* holds an entity
C22_OperatorWitness ==
    /\ applied = "parse_node_label"
    /\ fnArg = ExampleLabel
    /\ fnRet.line = 5
C22_Witness ==
    /\ applied = "parse_node_label"
    /\ OperatorForms(fnArg) = {}
    /\ TagForms(fnArg) = {}
    /\ StrContains(QUOT, fnArg)
    /\ fnRet.operation_type = Unknown
C22_TagWitness ==
    /\ applied = "parse_node_label"
    /\ TagForms(fnArg) # {}
    /\ fnRet.operation_type = <<"M", "_", "R">>
    /\ fnRet.line = 7
    /\ StrContains(LT, fnArg)

-----------------------------------------------------------------------------
(* Claims about unescaping *)

\* One pass over the label that rewrites, where it stands, a break marker to a
\* space and an entity to its character
RECURSIVE Unescaped(_)
Unescaped(s) ==
    IF s = <<>> THEN <<>>
    ELSE IF At(s, 1, BR) THEN <<" ">> \o Unescaped(SubSeq(s, 6, Len(s)))
    ELSE IF At(s, 1, LT) THEN <<"<">> \o Unescaped(SubSeq(s, 5, Len(s)))
    ELSE IF At(s, 1, GT) THEN <<">">> \o Unescaped(SubSeq(s, 5, Len(s)))
    ELSE IF At(s, 1, QUOT) THEN <<"\"">> \o Unescaped(SubSeq(s, 7, Len(s)))
    ELSE <<Head(s)>> \o Unescaped(Tail(s))

Occurrences(p, s) == Cardinality({i \in DOMAIN s : At(s, i, p)})
EscapedBreak == LT \o <<"B", "R", "/">> \o GT

\* C23: unescaping turns the break markers of the label into spaces and the
\* entities into their characters as they stand in the label, so the result
\* has one space per space and per break marker of the label and an escaped
\* break marker comes out as the text <BR/>.
C23_BreaksBeforeEntities ==
    applied = "clean_label" =>
      /\ fnRet = Unescaped(fnArg)
      /\ Occurrences(<<" ">>, fnRet) = Occurrences(<<" ">>, fnArg) + Occurrences(BR, fnArg)
      /\ Occurrences(BR, fnRet) >= Occurrences(EscapedBreak, fnArg)

C23_Witness ==
    /\ applied = "clean_label"
    /\ StrContains(EscapedBreak, fnArg)
    /\ StrContains(BR, fnRet)
    /\ ~HasChar(fnRet, " ")

-----------------------------------------------------------------------------
(* Claims about the normalizer scripts *)

IsNodeLine(line) == NodeMatch(line) # <<>>
IsEdgeLine(line) == EdgeMatch(line) # <<>>

\* The lines of the file a stored graph was read from
LinesOf(g) == dotInput[CHOOSE k \in DOMAIN dotInput : DotFileNames[k] = g.name].lines

\* C24 (as claimed): a graph that parse_dot_file returned has one node per
\* node-declaration line and one edge per edge-declaration line of its file, in
\* file order, and no line gave both a node and an edge.
C24_OneRecordPerDeclaration ==
    script \in {"dot_to_json", "dot_to_llm_index"} =>
      \A n \in DOMAIN graphs :
        LET g == graphs[n]
            nodeLines == SelectSeq(LinesOf(g), IsNodeLine)
            edgeLines == SelectSeq(LinesOf(g), IsEdgeLine)
        IN  /\ Len(g.nodes) = Len(nodeLines)
            /\ \A i \in DOMAIN g.nodes : g.nodes[i].id = NodeMatch(nodeLines[i])[1]
            /\ g.edges = [i \in DOMAIN edgeLines |-> EdgeMatch(edgeLines[i])]
            /\ Len(g.nodes) + Len(g.edges) <= Len(LinesOf(g))

\* The files the loop has taken, those that failed and those that did not
Failed == {k \in DOMAIN dotInput : dotInput[k].failed}
Parsed == {k \in DOMAIN dotInput : ~dotInput[k].failed}

\* C25 (as claimed): a file that cannot be opened or read on never ends the
\* run, and the output that is written holds the graph (the rows) of every
\* file that was read to its end and nothing of a file that failed.
C25_FailureSkipsOneFile ==
    /\ npc # "aborted"
    /\ npc = "written" =>
         /\ script # "dot_to_kuzu_csv" =>
              /\ {g.name : g \in Range(graphs)} = {DotFileNames[k] : k \in Parsed}
              /\ Len(graphs) = Cardinality(Parsed)
         /\ script = "dot_to_kuzu_csv" =>
              /\ \A k \in Failed : \A r \in Range(node_rows) \cup Range(edge_rows) :
                    r[3] # GraphId(k)
              /\ \A k \in Parsed :
                    /\ Len(SelectSeq(node_rows, LAMBDA r : r[3] = GraphId(k)))
                         = Len(SelectSeq(dotInput[k].lines, IsNodeLine))
                    /\ Len(SelectSeq(edge_rows, LAMBDA r : r[3] = GraphId(k)))
                         = Len(SelectSeq(dotInput[k].lines, IsEdgeLine))

-----------------------------------------------------------------------------
(* Claims about the order and the depth of the call chain *)

\* y is in the callee list of x in some call graph
IsCallee(x, y) ==
    \E k \in DOMAIN graph_data :
      x \in DOMAIN graph_data[k] /\ y \in Range(graph_data[k][x])

\* C26: a chain that is not empty starts with the function asked about, and
\* every later element is a callee, in some call graph, of an element that
\* stands before it.
C26_PreOrder ==
    ChainAnswered =>
      LET c == reply.chain
      IN  /\ c # <<>> => c[1] = request.function_name
          /\ \A j \in 2..Len(c) : \E i \in 1..(j - 1) : IsCallee(c[i], c[j])

\* The diamond was listed: both branches after the start, the shared callee
\* after the branch that reaches it
C26_Witness ==
    /\ ChainAnswered
    /\ graph_data = Diamond
    /\ request.max_depth = 3
    /\ Len(reply.chain) >= 4

\* The functions within d callee edges of x
RECURSIVE Within(_, _)
Within(x, d) ==
    IF d = 0 THEN {x}
    ELSE LET near == Within(x, d - 1)
         IN  near \cup {y \in NodesOf(graph_data) : \E z \in near : IsCallee(z, y)}

\* C27: no activation of build_chain is deeper than max_depth, none expands
\* its callees at max_depth, and every function of the chain is within
\* max_depth callee edges of the function asked about.
C27_DepthBound ==
    /\ cpc = "running" =>
         \A n \in DOMAIN frames :
           /\ frames[n].depth <= request.max_depth
           /\ frames[n].at = "loop" => frames[n].depth < request.max_depth
    /\ ChainAnswered =>
         Range(reply.chain) \subseteq Within(request.function_name, request.max_depth)

\* A cycle longer than the depth limit was cut short
C27_Witness ==
    /\ ChainAnswered
    /\ graph_data = Cycle3
    /\ request.max_depth = 2
    /\ reply.chain = <<"A", "B">>

\* C28 (as claimed): for a name that no call graph knows get_call_chain
\* reports that there is no call chain.
C28_UnknownIsEmpty ==
    (ChainAnswered /\ request.function_name \notin NodesOf(graph_data))
      => (reply.chain = <<>> /\ ~reply.found)

-----------------------------------------------------------------------------
(* Claims about the adjacency maps *)

Count(x, l) == Cardinality({i \in DOMAIN l : l[i] = x})
ListOf(d, k) == IF k \in DOMAIN d.lists THEN d.lists[k] ELSE <<>>

\* C29: whatever edges a builder has gone through, Y stands in call_graph[X]
\* as often as X stands in called_by[Y], and no key of either map has an empty
\* list.
C29_MapsMirrorEachOther ==
    applied \in Builders =>
      LET cg == fnRet.call_graph
          cb == fnRet.called_by
          names == (DOMAIN cg.lists) \cup (DOMAIN cb.lists)
                     \cup UNION {Range(cg.lists[k]) : k \in DOMAIN cg.lists}
                     \cup UNION {Range(cb.lists[k]) : k \in DOMAIN cb.lists}
      IN  /\ \A x, y \in names : Count(y, ListOf(cg, x)) = Count(x, ListOf(cb, y))
          /\ \A k \in DOMAIN cg.lists : cg.lists[k] # <<>>
          /\ \A k \in DOMAIN cb.lists : cb.lists[k] # <<>>
          /\ Range(cg.keys) = DOMAIN cg.lists
          /\ Range(cb.keys) = DOMAIN cb.lists

\* The same edge was inserted twice
C29_Witness ==
    /\ applied \in Builders
    /\ Len(fnArg) = 2
    /\ \E x \in DOMAIN fnRet.call_graph.lists :
         \E y \in Range(fnRet.call_graph.lists[x]) :
           Count(y, fnRet.call_graph.lists[x]) = 2

-----------------------------------------------------------------------------
(* Claims about the CPG rows *)

\* The rows of the output with a prefix, as fields: the text after the prefix,
\* cut at every "|"; only the rows with at least n fields
RowsOf(prefix, n) ==
    LET rows   == Split(Strip(fnArg), "\n")
        fields == [i \in DOMAIN rows |-> Split(Drop(rows[i], Len(prefix)), "|")]
        kept   == {i \in DOMAIN rows : StartsWith(rows[i], prefix) /\ Len(fields[i]) >= n}
    IN  SelectSeq([i \in DOMAIN rows |-> IF i \in kept THEN fields[i] ELSE <<>>],
                  LAMBDA f : f # <<>>)

TotalEntries(d) ==
    LET RECURSIVE Sum(_)
        Sum(ks) == IF ks = <<>> THEN 0 ELSE Len(d.lists[Head(ks)]) + Sum(Tail(ks))
    IN  Sum(d.keys)

\* C30 (as claimed): parse_cpg_output returns one call per CALL row of seven
\* or more fields, with the caller id as the row gives it and 0 for a line
\* number that is not a number; so build_call_graph files every call whose
\* row names the id of a METHOD row that was parsed.
C30_CallerIdKept ==
    applied \in {"parse_cpg_output", "build_call_graph"} =>
      LET calls   == RowsOf(CallPrefix, 7)
          methods == RowsOf(MethodPrefix, 6)
          ids     == {methods[i][1] : i \in DOMAIN methods}
      IN  /\ Len(fnRet.parsed.calls) = Len(calls)
          /\ \A i \in DOMAIN calls :
                /\ fnRet.parsed.calls[i].callerId = calls[i][1]
                /\ fnRet.parsed.calls[i].callerLine = IntOrZero(calls[i][4])
                /\ fnRet.parsed.calls[i].lineNumber = IntOrZero(calls[i][7])
          /\ {fnRet.parsed.methods[i].id : i \in DOMAIN fnRet.parsed.methods} = ids
          /\ applied = "build_call_graph" =>
                TotalEntries(fnRet.built.call_graph)
                  = Cardinality({i \in DOMAIN calls : calls[i][1] \in ids})

====
